---- MODULE Spec2Model ----
(***************************************************************************)
(* The request-dispatch engine of the director reverse proxy               *)
(* (src/internal/proxy/http.go, the `director` with pluggable reporter).   *)
(*                                                                         *)
(* One handler task per inbound request: it counts the request, invokes    *)
(* the primary backend and blocks on it, writes the caller's response,     *)
(* then starts a dispatcher task that starts one task per secondary        *)
(* backend.  Every metric increment is its own task (`go reporter.         *)
(* Increment(...)`), so counters lag behind the steps that caused them.    *)
(*                                                                         *)
(* The older `Director` of the same file (lines 280-307) differs only in   *)
(* keeping the secondaries in a map; its handler takes the same steps.     *)
(*                                                                         *)
(* Three components are specified on their own, each over the inputs it    *)
(* can be given: the configuration validator (SpecValidate, and            *)
(* SpecRevalidate for repeated NewDirector calls on one config object),    *)
(* the request sanitizer newRequest (SpecSanitize) and singleJoiningSlash   *)
(* (SpecJoin).                                                             *)
(*                                                                         *)
(* SpecServe follows one request in detail: the clone each invocation is   *)
(* given, its timing span and counter, what is sent to the caller, while   *)
(* the inbound body stream may break and the caller may go away.           *)
(*                                                                         *)
(* SpecLogger interleaves calls of infoLog and errorLog on the one logger, *)
(* SpecBodies follows the response bodies through copyResponse and         *)
(* logResponse.  The two broadcasters that preceded the director have      *)
(* specifications of their own: SpecBroadcast for the handler of           *)
(* src/main.go, which collects one outcome per endpoint, and SpecRace      *)
(* (SpecRaceFair with fairness) for the handler that races the primary     *)
(* against a response timeout.                                             *)
(***************************************************************************)
EXTENDS Integers, Sequences, FiniteSets, TLC

\* Number of inbound requests the model lets arrive.
MaxRequests == 2
\* Number of inbound requests that arrive under the fair specification.
MaxLiveRequests == 1

Requests == 1..MaxRequests
LiveRequests == 1..MaxLiveRequests

\* The backends of the test configuration: B2 is the primary endpoint.
PrimaryTag == "B2"
SecondaryTags == {"B1", "B3"}
BackendTags == {PrimaryTag} \cup SecondaryTags

StatusOK == 200
StatusServiceUnavailable == 503
\* The status the backends of the model answer a request with.
StatusCreated == 201

RequestCount == "director.request.count"
PrimarySuccess == "primary.success.count"
PrimaryFailure == "primary.failure.count"
SecondarySuccess == "secondary.success.count"
SecondaryFailure == "secondary.failure.count"
MetricTags ==
    {RequestCount, PrimarySuccess, PrimaryFailure, SecondarySuccess, SecondaryFailure}

VARIABLES
    secondaries,  \* director.secondaries: the non-primary backends, in slice order
    hpc,          \* hpc[r]: where the handler task of request r stands
    primRes,      \* primRes[r]: what the primary round trip of r returned
    rw,           \* rw[r]: what has been written to the caller of r
    dnext,        \* dnext[r]: 0 = no dispatcher task; k = index it handles next
    tpc,          \* tpc[r][i]: the task for the i-th secondary of request r
    attempts,     \* attempts[r][b]: round trips started to backend b for r
    pending,      \* pending[tag]: Increment tasks started and not yet run
    metrics,       \* metrics[tag]: the reporter's counters
    inreq,        \* inreq[r]: the inbound request of r, its buffered body, whether its stream is broken and its caller gone
    calls,        \* calls[r][s]: the backend invocation of r in slot s (0: primary, i: i-th secondary)
    written       \* the process-wide objects written since the server started serving

\* The validator (validate, configureLogger, NewDirector).
VARIABLES
    config,       \* the ProxyConfig object handed to NewDirector
    logger,       \* the process-wide currentLogLevel and the logger's output
    verr,         \* what the last NewDirector call returned as its error
    director,     \* the director the last NewDirector call returned
    before,       \* config and logger as they were when the last call began
    ncalls        \* NewDirector calls made on the config object

\* The request sanitizer (newRequest, modifyRequestForProxy, cloneHeader).
VARIABLES
    inbound,      \* the inbound *http.Request and its buffered body
    hmaps,        \* the http.Header maps allocated: address -> key -> slice address
    hslices,      \* the []string value slices allocated: address -> values
    clones,       \* the outbound requests newRequest has returned
    arrived,      \* the inbound header as it arrived: key -> values
    copiesURL,    \* whether the runtime's Request.WithContext copies the URL
    built         \* the calls of newRequest: target, URL found, URL returned

\* singleJoiningSlash.
VARIABLES
    joinIn,       \* the arguments <<a, b>> of the last call
    joinOut       \* what the call returned

\* The logger (infoLog, errorLog).
VARIABLES
    currentLogLevel,  \* the process-wide log level
    logPrefix,        \* the prefix of the process-wide *log.Logger
    logCalls,         \* the calls of infoLog and errorLog and how far each got
    logLines          \* the lines the logger has printed

\* The broadcasters (roundTrip, requestToPrimary, requestToSecondary and
\* their handlers).
VARIABLES
    bh,           \* the handler of the one request: its position and what it read
    btasks,       \* the task started for each endpoint
    res_chan,     \* the responses sent on res_chan and not yet received
    err_chan,     \* the errors sent on err_chan and not yet received
    brw           \* what the handler wrote to its http.ResponseWriter

\* The response bodies (copyResponse, logResponse).
VARIABLES
    checksCode,   \* whether the runtime's WriteHeader panics on an invalid code
    got,          \* what the round trip of each invocation returned
    at,           \* how far each invocation and the handling of its result got
    closes        \* the calls of res.Body.Close() on each invocation's response

dispatchVars ==
    <<secondaries, hpc, primRes, rw, dnext, tpc, attempts, pending, metrics,
      inreq, calls, written>>
validatorVars == <<config, logger, verr, director, before, ncalls>>
sanitizerVars == <<inbound, hmaps, hslices, clones, arrived, copiesURL, built>>
joinVars == <<joinIn, joinOut>>

loggerVars == <<currentLogLevel, logPrefix, logCalls, logLines>>
broadcastVars == <<bh, btasks, res_chan, err_chan, brw>>

bodyVars == <<checksCode, got, at, closes>>

vars == <<dispatchVars, validatorVars, sanitizerVars, joinVars, loggerVars,
          broadcastVars, bodyVars>>

\* A specification of one component leaves the variables of the others as
\* they are; they hold no value of the program then.
Unused == <<>>
ValidatorUnused ==
    /\ config = Unused /\ logger = Unused /\ verr = Unused
    /\ director = Unused /\ before = Unused /\ ncalls = Unused
SanitizerUnused ==
    /\ inbound = Unused /\ hmaps = Unused /\ hslices = Unused
    /\ clones = Unused /\ arrived = Unused
    /\ copiesURL = Unused /\ built = Unused
JoinUnused ==
    /\ joinIn = Unused /\ joinOut = Unused
LoggerUnused ==
    /\ currentLogLevel = Unused /\ logPrefix = Unused
    /\ logCalls = Unused /\ logLines = Unused
BroadcastUnused ==
    /\ bh = Unused /\ btasks = Unused /\ res_chan = Unused
    /\ err_chan = Unused /\ brw = Unused
BodyUnused ==
    /\ checksCode = Unused /\ got = Unused /\ at = Unused /\ closes = Unused
DispatchUnused ==
    /\ secondaries = Unused /\ hpc = Unused /\ primRes = Unused
    /\ rw = Unused /\ dnext = Unused /\ tpc = Unused
    /\ attempts = Unused /\ pending = Unused /\ metrics = Unused
    /\ inreq = Unused /\ calls = Unused /\ written = Unused

----------------------------------------------------------------------------
(* Values *)

\* A piece of a body, tagged with where it comes from.
Chunk(src, text) == [src |-> src, text |-> text]

EmptyHeader == [k \in {} |-> <<>>]

\* A backend's answer: headers (one multi-valued), a status and a body whose
\* stream breaks after readErrAt chunks (-1: it never breaks).
BackendHeader(b) ==
    [k \in {"X-Served-By", "Set-Cookie"} |->
        IF k = "X-Served-By" THEN <<b>> ELSE <<"a=1", "b=2">>]

BackendBody(b) == <<Chunk(b, "payload")>>

Response(b, readErrAt) ==
    [kind |-> "res", src |-> b, status |-> StatusCreated, header |-> BackendHeader(b),
     body |-> BackendBody(b), readErrAt |-> readErrAt]

\* A transport error of the round trip to b.
TransportError(b) ==
    [kind |-> "err", src |-> b, status |-> 0, header |-> EmptyHeader,
     body |-> <<Chunk(b, "transport error")>>, readErrAt |-> -1]

NoResult ==
    [kind |-> "none", src |-> "", status |-> 0, header |-> EmptyHeader,
     body |-> <<>>, readErrAt |-> -1]

\* What transport.RoundTrip(req) to backend b may return.
RoundTripResults(b) ==
    {TransportError(b)} \cup
    {Response(b, k) : k \in -1..Len(BackendBody(b))}

\* The caller's response writer before anything is written.
NewResponseWriter ==
    [status |-> 0, header |-> EmptyHeader, sent |-> EmptyHeader, body |-> <<>>]

\* The elements of a sequence, the values of a function.
Range(s) == {s[i] : i \in DOMAIN s}

----------------------------------------------------------------------------
(* Configuration Validator: values *)

INFO == TRUE
ERROR == FALSE

\* The backend ids a configuration may name, and an id no map holds.
BackendIds == {"B1", "B2", "B3"}
PrimaryEndpoints == {"", "B2", "B4"}
Ports == {-1, 0, 8080}
LogFiles == {"", "director.log"}

\* The values a backend may be given in the map: none, one url.Parse
\* rejects, and the address of the backend.
UnparseableURL == ":"
BackendURL(k) ==
    CASE k = "B1" -> "http://b1:9001/?t=1"
      [] k = "B2" -> "http://b2:9002"
      [] OTHER    -> "http://b3:9003/svc/"
BackendValues(k) == {"", UnparseableURL, BackendURL(k)}

\* url.Parse: the error, or the URL split into its parts; a path and a query
\* are the sequences of their characters.
NilURL == [Scheme |-> "", Host |-> "", Path |-> <<>>, RawQuery |-> <<>>]
urlParse(v) ==
    CASE v = ":" ->
            [err |-> "missing protocol scheme", url |-> NilURL]
      [] v = "http://b1:9001/?t=1" ->
            [err |-> "", url |-> [Scheme |-> "http", Host |-> "b1:9001",
                                  Path |-> <<"/">>, RawQuery |-> <<"t=1">>]]
      [] v = "http://b2:9002" ->
            [err |-> "", url |-> [Scheme |-> "http", Host |-> "b2:9002",
                                  Path |-> <<>>, RawQuery |-> <<>>]]
      [] v = "http://b3:9003/svc/" ->
            [err |-> "", url |-> [Scheme |-> "http", Host |-> "b3:9003",
                                  Path |-> <<"/", "s", "v", "c", "/">>, RawQuery |-> <<>>]]
      [] OTHER ->
            [err |-> "", url |-> [Scheme |-> "", Host |-> "", Path |-> <<v>>, RawQuery |-> <<>>]]

\* *backend, nil included.
NilBackend == [id |-> "", addr |-> NilURL, nil |-> TRUE]
NewBackend(k, u) == [id |-> k, addr |-> u, nil |-> FALSE]

\* metrics.Reporter values.
NilReporter == "nil"
NoopReporter == "noopReporter"
StatsDReporter == "statsDReporter"

\* The errors of validate: proxyError(fmt.Sprintf(msg, id)); nil has no message.
NilError == [msg |-> "", id |-> ""]
proxyError(m, k) == [msg |-> m, id |-> k]
ErrNoConfig == "Configuration for proxy must be provided"
ErrNoOptions == "Proxy options are missing"
ErrNoPort == "Proxy port is missing in proxy options"
ErrStatsD == "Unable to configure StatsD client. Error: %s"
ErrNoPrimaryEndpoint == "Primary endpoint is missing in proxy options"
ErrNoBackends == "Backends are missing or empty"
ErrPrimaryMissing == "Primary backend missing from the given set of backends"
ErrNoBackendData == "Backend endpoint with ID: %s does not have any associated data"
ErrInvalidURL == "Invalid url: %s for endpoint with ID: %s. Error: %s"

\* *ProxyOptions, nil included; metricsReporter is nil until validate sets it.
NilOptions ==
    [nil |-> TRUE, Port |-> 0, PrimaryEndpoint |-> "", LogFile |-> "",
     LogLevel |-> ERROR, EnableStatsD |-> FALSE, metricsReporter |-> NilReporter]
OptionsInputs ==
    {NilOptions} \cup
    [nil : {FALSE}, Port : Ports, PrimaryEndpoint : PrimaryEndpoints,
     LogFile : LogFiles, LogLevel : {ERROR, INFO}, EnableStatsD : BOOLEAN,
     metricsReporter : {NilReporter}]

\* map[string]string, nil included.
NilMap == [nil |-> TRUE, kv |-> <<>>]
BackendMaps ==
    {NilMap} \cup
    {[nil |-> FALSE, kv |-> m] :
        m \in UNION {{f \in [ks -> UNION {BackendValues(k) : k \in ks}] :
                        \A k \in ks : f[k] \in BackendValues(k)}
                        : ks \in SUBSET BackendIds}}

\* *ProxyConfig, nil included; primary and secondaries are unset as supplied.
NilConfig ==
    [nil |-> TRUE, Options |-> NilOptions, Backends |-> NilMap,
     primary |-> NilBackend, secondaries |-> <<>>]
ConfigInputs ==
    {NilConfig} \cup
    [nil : {FALSE}, Options : OptionsInputs, Backends : BackendMaps,
     primary : {NilBackend}, secondaries : {<<>>}]

\* currentLogLevel and the logger's output as the package initialises them.
StartLogger == [level |-> ERROR, output |-> "os.Stdout"]

\* *director, nil included.
NilDirector ==
    [nil |-> TRUE, port |-> 0, reporter |-> NilReporter,
     primary |-> NilBackend, secondaries |-> <<>>]

----------------------------------------------------------------------------
(* Request Sanitizer: strings and headers *)

\* A string is the sequence of its characters; the empty string is <<>>.
\* Header values are written in tokens: a word, "," or " ".
EmptyString == <<>>
IsSpace(c) == c = " "

\* strings.HasSuffix(a, "/") and strings.HasPrefix(b, "/").
HasSuffixSlash(a) == Len(a) > 0 /\ a[Len(a)] = "/"
HasPrefixSlash(b) == Len(b) > 0 /\ b[1] = "/"

\* strings.TrimSpace: leading and trailing white space dropped.
RECURSIVE TrimLeft(_)
TrimLeft(f) == IF Len(f) > 0 /\ IsSpace(f[1]) THEN TrimLeft(Tail(f)) ELSE f
RECURSIVE TrimRight(_)
TrimRight(f) ==
    IF Len(f) > 0 /\ IsSpace(f[Len(f)]) THEN TrimRight(SubSeq(f, 1, Len(f) - 1)) ELSE f
TrimSpace(f) == TrimRight(TrimLeft(f))

\* strings.Split(v, ","): the fields between the commas, empty ones included.
RECURSIVE SplitAt(_, _, _)
SplitAt(v, i, field) ==
    IF i > Len(v) THEN <<field>>
    ELSE IF v[i] = "," THEN <<field>> \o SplitAt(v, i + 1, EmptyString)
    ELSE SplitAt(v, i + 1, Append(field, v[i]))
Split(v) == SplitAt(v, 1, EmptyString)

\* textproto.CanonicalMIMEHeaderKey on a field name: one word is put in
\* canonical case; anything else (white space inside) is left as it is and
\* names no header of the map.
NoSuchKey == "(no such key)"
CanonicalWord(w) ==
    CASE w \in {"connection", "CONNECTION"} -> "Connection"
      [] w = "keep-alive"          -> "Keep-Alive"
      [] w = "upgrade"             -> "Upgrade"
      [] w = "x-custom"            -> "X-Custom"
      [] w = "user-agent"          -> "User-Agent"
      [] w = "te"                  -> "Te"
      [] w = "close"               -> "Close"
      [] OTHER                     -> w
CanonicalMIMEHeaderKey(f) == IF Len(f) = 1 THEN CanonicalWord(f[1]) ELSE NoSuchKey

\* hopHeaders, in the order of the slice.
hopHeaders ==
    <<"Connection", "Proxy-Connection", "Keep-Alive", "Proxy-Authenticate",
      "Proxy-Authorization", "Te", "Trailer", "Transfer-Encoding", "Upgrade">>
EndToEndHeaders == <<"X-Custom", "User-Agent">>
HeaderKeys == hopHeaders \o EndToEndHeaders

\* The value lists an inbound request may carry for a key; <<>> is the key
\* not being there.
Absent == <<>>
ValueLists(k) ==
    CASE k = "Connection" ->
            {Absent,
             << <<"close">> >>,
             << <<"keep-alive">> >>,
             << <<"x-custom", ",", " ", "upgrade">> >>,
             << <<" ", ",", " ", "x-custom", " ">> >>,
             << <<"close">>, <<"x-custom">> >>,
             << <<"user-agent">> >>}
      [] k = "Keep-Alive" -> {Absent, << <<"timeout=5">> >>, << EmptyString >>}
      [] k = "Upgrade"    -> {Absent, << <<"websocket">> >>}
      [] k = "X-Custom"   -> {Absent, << <<"1">>, <<"2">> >>}
      [] k = "User-Agent" -> {Absent, << <<"curl">> >>}
      [] OTHER            -> {Absent, << <<"v">> >>}

\* The inbound headers: every choice of value lists with at most one of the
\* six remaining hop-by-hop headers there.
RarelySent ==
    {"Proxy-Connection", "Proxy-Authenticate", "Proxy-Authorization", "Te",
     "Trailer", "Transfer-Encoding"}
HeaderChoices ==
    [conn : ValueLists("Connection"), keepAlive : ValueLists("Keep-Alive"),
     upgrade : ValueLists("Upgrade"), custom : ValueLists("X-Custom"),
     userAgent : ValueLists("User-Agent"), rare : RarelySent \cup {NoSuchKey}]
ChosenValues(ch, k) ==
    CASE k = "Connection" -> ch.conn
      [] k = "Keep-Alive" -> ch.keepAlive
      [] k = "Upgrade"    -> ch.upgrade
      [] k = "X-Custom"   -> ch.custom
      [] k = "User-Agent" -> ch.userAgent
      [] OTHER            -> IF k = ch.rare THEN << <<"v">> >> ELSE Absent
HeaderInputs ==
    {[k \in {j \in Range(HeaderKeys) : ChosenValues(ch, j) # Absent} |-> ChosenValues(ch, k)] :
        ch \in HeaderChoices}

----------------------------------------------------------------------------
(* Request Sanitizer: header maps *)

\* The header maps and value slices allocated so far. A map holds, for each
\* of its keys, the address of a slice; a slice holds the values.
\* cloneURL says what Request.WithContext does with the URL: some releases of
\* the runtime copy it, the others hand the clone the URL of the original.
NewHeap == [maps |-> <<>>, slices |-> <<>>, cloneURL |-> TRUE]
IndexOf(seq, x) == CHOOSE i \in DOMAIN seq : seq[i] = x
KeysInOrder(content) == SelectSeq(HeaderKeys, LAMBDA k : k \in DOMAIN content)

\* What the map at address h says: key -> values.
HeaderContent(hp, h) == [k \in DOMAIN hp.maps[h] |-> hp.slices[hp.maps[h][k]]]

\* A fresh map with a fresh slice for every key of content.
makeHeader(hp, content) ==
    LET ks == KeysInOrder(content)
    IN  [heap |-> [hp EXCEPT
                    !.maps = Append(hp.maps,
                                [k \in DOMAIN content |-> Len(hp.slices) + IndexOf(ks, k)]),
                    !.slices = hp.slices \o [i \in 1..Len(ks) |-> content[ks[i]]]],
         h |-> Len(hp.maps) + 1]

\* A faulty variant: a new map whose keys point at the slices of the old one.
cloneHeader_sharedSlices(hp, h) ==
    [heap |-> [hp EXCEPT !.maps = Append(@, hp.maps[h])], h |-> Len(hp.maps) + 1]

\* cloneHeader: h2 of its own, and for every key a slice of its own that
\* holds a copy of the values.
cloneHeader(hp, h) == makeHeader(hp, HeaderContent(hp, h))

\* Header.Get: the first value of the key, "" when there is none.
headerGet(hp, h, key) ==
    IF key \in DOMAIN hp.maps[h] /\ Len(hp.slices[hp.maps[h][key]]) > 0
    THEN hp.slices[hp.maps[h][key]][1]
    ELSE EmptyString

\* Header.Del(f): the canonical key of f leaves the map.
headerDel(hp, h, f) ==
    [hp EXCEPT !.maps[h] =
        [k \in DOMAIN @ \ {CanonicalMIMEHeaderKey(f)} |-> @[k]]]

\* Header.Set(key, value): the key gets a slice of its own with this one value.
headerSet(hp, h, key, value) ==
    [hp EXCEPT
        !.maps = [hp.maps EXCEPT ![h] =
                    [k \in DOMAIN @ \cup {key} |->
                        IF k = key THEN Len(hp.slices) + 1 ELSE @[k]]],
        !.slices = Append(hp.slices, <<value>>)]

----------------------------------------------------------------------------
(* Request Sanitizer: newRequest *)

\* A faulty variant: two slashes at the seam are both kept.
singleJoiningSlash_keepsBoth(a, b) ==
    IF ~HasSuffixSlash(a) /\ ~HasPrefixSlash(b) THEN a \o <<"/">> \o b ELSE a \o b

\* singleJoiningSlash(a, b).
singleJoiningSlash(a, b) ==
    LET aslash == HasSuffixSlash(a)
        slashb == HasPrefixSlash(b)
    IN  CASE aslash /\ slashb   -> a \o Tail(b)
          [] ~aslash /\ ~slashb -> a \o <<"/">> \o b
          [] OTHER              -> a \o b

\* A faulty variant: User-Agent is set to "" whether the request has one or not.
modifyRequestForProxy_resetsUserAgent(hp, out_req, target) ==
    [heap |-> headerSet(hp, out_req.Header, "User-Agent", EmptyString),
     req |-> [out_req EXCEPT
                !.URL = [Scheme |-> target.Scheme, Host |-> target.Host,
                         Path |-> singleJoiningSlash(target.Path, out_req.URL.Path),
                         RawQuery |->
                            IF target.RawQuery = EmptyString \/ out_req.URL.RawQuery = EmptyString
                            THEN target.RawQuery \o out_req.URL.RawQuery
                            ELSE target.RawQuery \o <<"&">> \o out_req.URL.RawQuery],
                !.Host = ""]]

\* A faulty variant: a request without a User-Agent is left without one.
modifyRequestForProxy_noUserAgent(hp, out_req, target) ==
    [heap |-> hp,
     req |-> [out_req EXCEPT
                !.URL = [Scheme |-> target.Scheme, Host |-> target.Host,
                         Path |-> singleJoiningSlash(target.Path, out_req.URL.Path),
                         RawQuery |->
                            IF target.RawQuery = EmptyString \/ out_req.URL.RawQuery = EmptyString
                            THEN target.RawQuery \o out_req.URL.RawQuery
                            ELSE target.RawQuery \o <<"&">> \o out_req.URL.RawQuery],
                !.Host = ""]]

\* A faulty variant: the two queries are joined with "&" whether or not one is empty.
modifyRequestForProxy_alwaysAmpersand(hp, out_req, target) ==
    [heap |-> IF "User-Agent" \notin DOMAIN hp.maps[out_req.Header]
              THEN headerSet(hp, out_req.Header, "User-Agent", EmptyString)
              ELSE hp,
     req |-> [out_req EXCEPT
                !.URL = [Scheme |-> target.Scheme, Host |-> target.Host,
                         Path |-> singleJoiningSlash(target.Path, out_req.URL.Path),
                         RawQuery |-> target.RawQuery \o <<"&">> \o out_req.URL.RawQuery],
                !.Host = ""]]

\* modifyRequestForProxy: the URL is re-addressed to the target, a request
\* without a User-Agent key gets an empty one, Host is cleared.
modifyRequestForProxy(hp, out_req, target) ==
    [heap |-> IF "User-Agent" \notin DOMAIN hp.maps[out_req.Header]
              THEN headerSet(hp, out_req.Header, "User-Agent", EmptyString)
              ELSE hp,
     req |-> [out_req EXCEPT
                !.URL = [Scheme |-> target.Scheme, Host |-> target.Host,
                         Path |-> singleJoiningSlash(target.Path, out_req.URL.Path),
                         RawQuery |->
                            IF target.RawQuery = EmptyString \/ out_req.URL.RawQuery = EmptyString
                            THEN target.RawQuery \o out_req.URL.RawQuery
                            ELSE target.RawQuery \o <<"&">> \o out_req.URL.RawQuery],
                !.Host = ""]]

\* The inner loop of newRequest: every field of the Connection value, trimmed
\* and not empty, is deleted from the header.
RECURSIVE delConnectionFields(_, _, _, _)
delConnectionFields(hp, h, fields, i) ==
    IF i > Len(fields) THEN hp
    ELSE LET f == TrimSpace(fields[i])
         IN  delConnectionFields(IF f # EmptyString THEN headerDel(hp, h, f) ELSE hp,
                                 h, fields, i + 1)

\* The loop of newRequest over hopHeaders from its i-th iteration on: a
\* header whose first value is not "" is deleted, except Connection, for
\* which the headers its first value names are deleted.
RECURSIVE rangeHopHeaders(_, _, _)
rangeHopHeaders(hp, h, i) ==
    IF i > Len(hopHeaders) THEN hp
    ELSE LET name == hopHeaders[i]
             v == headerGet(hp, h, name)
         IN  rangeHopHeaders(
                IF v = EmptyString THEN hp
                ELSE IF name = "Connection" THEN delConnectionFields(hp, h, Split(v), 1)
                ELSE headerDel(hp, h, <<name>>),
                h, i + 1)

\* The contexts a request may carry: the one the server cancels when the
\* caller goes away, and context.Background(), which nothing cancels.
RequestContext == "req.Context()"
BackgroundContext == "context.Background()"

\* A faulty variant: the clone keeps the context of the inbound request.
withContext_inherits(hp, req, ctx) == req

\* The URL objects a request may point to: the one the server parsed for the
\* inbound request, and a copy made for a clone.
InboundURL == "req.URL"
ClonedURL == "cloneURL(req.URL)"

\* req.WithContext(ctx): a shallow copy of the request that carries ctx. Its
\* URL is a copy of the original's where the runtime copies it, and the
\* original's URL object itself where it does not.
withContext(hp, req, ctx) ==
    [req EXCEPT !.ctx = ctx,
                !.URLobj = IF hp.cloneURL THEN ClonedURL ELSE @]

\* A faulty variant: the clone keeps the body stream and the content length
\* of the inbound request.
newRequest_keepsInboundBody(hp, req, req_body, req_url) ==
    LET new_req == withContext(hp, req, BackgroundContext)
        cloned == cloneHeader(hp, req.Header)
        modified == modifyRequestForProxy(cloned.heap, [new_req EXCEPT !.Header = cloned.h], req_url)
    IN  [heap |-> rangeHopHeaders(modified.heap, modified.req.Header, 1),
         req |-> [modified.req EXCEPT !.Close = FALSE]]

\* newRequest(req, req_body, req_url): the heap after the call and the
\* request it returns.
newRequest(hp, req, req_body, req_url) ==
    LET new_req == [withContext(hp, req, BackgroundContext) EXCEPT
                        !.ContentLength = Len(req_body), !.Body = req_body]
        cloned == cloneHeader(hp, req.Header)
        modified == modifyRequestForProxy(cloned.heap, [new_req EXCEPT !.Header = cloned.h], req_url)
    IN  [heap |-> rangeHopHeaders(modified.heap, modified.req.Header, 1),
         req |-> [modified.req EXCEPT !.Close = FALSE]]

\* The inbound requests: a GET without a body and a POST with one.
InboundShapes ==
    {[Method |-> "GET", Body |-> <<>>, Path |-> <<"/">>, RawQuery |-> <<>>],
     [Method |-> "POST", Body |-> <<"b1", "b2">>, Path |-> <<"/", "a">>, RawQuery |-> <<"q">>]}

\* []byte(nil), which readRequestBody returns when reading failed.
NilBytes == <<>>

\* A faulty variant: what was read before the stream broke is kept.
readRequestBody_keepsPartial(stream, failed) ==
    IF failed /\ Len(stream) > 0 THEN SubSeq(stream, 1, 1) ELSE stream

\* readRequestBody(req): everything the body stream holds, or nil when
\* ioutil.ReadAll failed.
readRequestBody(stream, failed) == IF failed THEN NilBytes ELSE stream

----------------------------------------------------------------------------
(* Response Assembler *)

copyHeader(dst, src) ==
    [k \in (DOMAIN dst) \cup (DOMAIN src) |->
        (IF k \in DOMAIN dst THEN dst[k] ELSE <<>>) \o
        (IF k \in DOMAIN src THEN src[k] ELSE <<>>)]

\* io.CopyBuffer(rw, res.Body, buf): the chunks read before the stream broke,
\* and on a break the error text printed after them.
copyBody(res) ==
    IF res.readErrAt < 0
    THEN res.body
    ELSE SubSeq(res.body, 1, res.readErrAt) \o <<Chunk(res.src, "copy error")>>

\* rw.WriteHeader(code): the first call fixes the status and sends the header
\* map as it is then; a later call changes nothing.
WriteHeader(w, code) ==
    IF w.status # 0 THEN w ELSE [w EXCEPT !.status = code, !.sent = w.header]

\* rw.Write(chunks): the default status is written first when none was.
Write(w, chunks) == [WriteHeader(w, StatusOK) EXCEPT !.body = @ \o chunks]

\* A faulty variant: the status is written before the headers are copied.
copyResponse_statusFirst(w, res) ==
    LET started == WriteHeader(w, res.status)
    IN  Write([started EXCEPT !.header = copyHeader(@, res.header)], copyBody(res))

\* copyResponse(rw, res): copyHeader, WriteHeader(res.StatusCode), then the body.
copyResponse(w, res) ==
    Write(WriteHeader([w EXCEPT !.header = copyHeader(@, res.header)], res.status),
          copyBody(res))

\* A faulty variant: the failure branch forgets WriteHeader(503), so the status stays 200.
writeServiceUnavailable_defaultStatus(w, err) == Write(w, err.body)

\* The failure branch of the handler: 503 and the error's text.
writeServiceUnavailable(w, err) ==
    Write(WriteHeader(w, StatusServiceUnavailable), err.body)

\* The handler's branch on the primary's result.
writeCallerResponse(w, res) ==
    IF res.kind = "res" THEN copyResponse(w, res) ELSE writeServiceUnavailable(w, res)

----------------------------------------------------------------------------
(* Backend Invoker *)

successTag(metricPrefix) ==
    IF metricPrefix = "primary" THEN PrimarySuccess ELSE SecondarySuccess

failureTag(metricPrefix) ==
    IF metricPrefix = "primary" THEN PrimaryFailure ELSE SecondaryFailure

\* A faulty variant: a transport error is counted as a success.
outcomeTag_alwaysSuccess(metricPrefix, res) == successTag(metricPrefix)

\* The counter requestToBackend bumps for a round-trip result.
outcomeTag(metricPrefix, res) ==
    IF res.kind = "res" THEN successTag(metricPrefix) ELSE failureTag(metricPrefix)

\* A faulty variant: the failure branch of requestToBackend counts nothing.
goIncrement_failureUncounted(p, tag) ==
    IF tag \in {PrimaryFailure, SecondaryFailure} THEN p ELSE [p EXCEPT ![tag] = @ + 1]

\* `go reporter.Increment(tag)`: one more Increment task.
goIncrement(p, tag) == [p EXCEPT ![tag] = @ + 1]

\* requestToBackend up to the call of transport.RoundTrip: one more attempt.
roundTripStarted(a, r, b) == [a EXCEPT ![r][b] = @ + 1]

\* fmt.Sprintf("%s.response_time", metricPrefix).
responseTimeTag(metricPrefix) == metricPrefix \o ".response_time"

\* The process-wide objects a request may touch.
DefaultTransport == "http.DefaultTransport"
Logger == "logger"
Reporter == "reporter"

\* errorLog sets the logger's prefix before it prints.
errorLogWrites(logged) == IF logged THEN {Logger} ELSE {}

\* The handler's call of readRequestBody on the inbound request q.
bodyRead(q, failed) ==
    [q EXCEPT !.body = readRequestBody(q.req.Body, failed),
              !.readFailed = failed,
              !.reads = @ + 1,
              !.req.Body = <<>>]

\* requestToBackend(req, be, reporter, metricPrefix) up to the call of
\* transport.RoundTrip: StartTiming has opened one span.
requestToBackendBegins(req, b, metricPrefix, callerGone) ==
    [req |-> req, backend |-> b, prefix |-> metricPrefix,
     spansStarted |-> 1, spansEnded |-> 0, spanTag |-> "",
     counted |-> <<>>, outcome |-> "roundTrip", cause |-> <<>>,
     callerGone |-> callerGone]

\* The error of a round trip whose context was cancelled.
ContextCanceled(b) == [TransportError(b) EXCEPT !.body = <<Chunk(b, "context canceled")>>]

\* What transport.RoundTrip returns for the invocation c when the caller of
\* the inbound request is gone or not.
roundTrip(c, callerGone) ==
    IF callerGone /\ c.req.ctx = RequestContext
    THEN {ContextCanceled(c.backend)}
    ELSE RoundTripResults(c.backend)

\* A faulty variant: the span is ended only when the backend answered.
requestToBackendReturns_spanLeaks(c, res) ==
    [c EXCEPT !.spansEnded = IF res.kind = "res" THEN @ + 1 ELSE @,
              !.spanTag = IF res.kind = "res" THEN responseTimeTag(c.prefix) ELSE @,
              !.counted = Append(@, outcomeTag(c.prefix, res)),
              !.outcome = res.kind,
              !.cause = IF res.kind = "err" THEN res.body ELSE <<>>]

\* requestToBackend from the return of transport.RoundTrip on: one Increment
\* task for the outcome, and the deferred EndTiming on the way out.
requestToBackendReturns(c, res) ==
    [c EXCEPT !.spansEnded = @ + 1,
              !.spanTag = responseTimeTag(c.prefix),
              !.counted = Append(@, outcomeTag(c.prefix, res)),
              !.outcome = res.kind,
              !.cause = IF res.kind = "err" THEN res.body ELSE <<>>]

----------------------------------------------------------------------------
(* Configuration *)

\* The slices validate can leave in config.secondaries for the backend maps
\* {B2}, {B1,B2}, {B2,B3}, {B1,B2,B3}: map iteration order is unspecified.
SecondaryConfigs ==
    {<<>>, <<"B1">>, <<"B3">>, <<"B1", "B3">>, <<"B3", "B1">>}

NumSecondaries == Len(secondaries)

\* The request every caller of the model sends: a POST with a body, no
\* hop-by-hop header.
ServedHeader == [k \in {"User-Agent"} |-> << <<"curl">> >>]
ServedHeap == makeHeader(NewHeap, ServedHeader)
ServedRequest ==
    LET shape == CHOOSE s \in InboundShapes : s.Method = "POST"
    IN  [Method |-> shape.Method,
         URL |-> [Scheme |-> "", Host |-> "", Path |-> shape.Path,
                  RawQuery |-> shape.RawQuery],
         URLobj |-> InboundURL,
         Header |-> ServedHeap.h, Body |-> shape.Body,
         ContentLength |-> Len(shape.Body),
         Host |-> "director:8080", Close |-> FALSE,
         ctx |-> RequestContext]

\* The slots of a request's backend invocations: the primary's, and the
\* i-th secondary's at i.
PrimarySlot == 0
NoCalls == [s \in {} |-> NoResult]

\* A request on arrival: nothing is read of its body yet.
Arriving ==
    [req |-> ServedRequest, body |-> NilBytes, reads |-> 0,
     broken |-> FALSE, readFailed |-> FALSE, cancelled |-> FALSE]

\* The request and the buffer the handler holds once the body is read.
Buffered == {<<q.req, q.body>> : q \in {bodyRead(Arriving, failed) : failed \in BOOLEAN}}

\* newRequest(req, body, addr) for every request and buffer the handler may
\* hold and the address of every backend.
OutboundRequests ==
    [in \in Buffered, b \in BackendTags |->
        newRequest(ServedHeap.heap, in[1], in[2], urlParse(BackendURL(b)).url).req]

\* The handler (or the task of a secondary) builds the clone for backend b
\* with newRequest and enters requestToBackend with it.
invoke(cs, r, s, b, metricPrefix) ==
    [cs EXCEPT ![r] =
        (s :> requestToBackendBegins(OutboundRequests[<<inreq[r].req, inreq[r].body>>, b],
                                     b, metricPrefix, inreq[r].cancelled)) @@ @]
TaskIds == 1..NumSecondaries

Init ==
    /\ secondaries \in SecondaryConfigs
    /\ hpc = [r \in Requests |-> "idle"]
    /\ primRes = [r \in Requests |-> NoResult]
    /\ rw = [r \in Requests |-> NewResponseWriter]
    /\ dnext = [r \in Requests |-> 0]
    /\ tpc = [r \in Requests |-> [i \in 1..Len(secondaries) |-> "none"]]
    /\ attempts = [r \in Requests |-> [b \in BackendTags |-> 0]]
    /\ pending = [t \in MetricTags |-> 0]
    /\ metrics = [t \in MetricTags |-> 0]
    /\ inreq = [r \in Requests |-> Arriving]
    /\ calls = [r \in Requests |-> NoCalls]
    /\ written = {}
    /\ ValidatorUnused /\ SanitizerUnused /\ JoinUnused
    /\ LoggerUnused /\ BroadcastUnused /\ BodyUnused

----------------------------------------------------------------------------
(* Dispatch Engine: the handler task *)

\* A faulty variant: the dispatcher task is started on arrival, ahead of the primary.
HandlerBegin_dispatchFirst(r) ==
    /\ hpc[r] = "idle"
    /\ hpc' = [hpc EXCEPT ![r] = "read"]
    /\ pending' = goIncrement(pending, RequestCount)
    /\ dnext' = [dnext EXCEPT ![r] = 1]
    /\ inreq' = [inreq EXCEPT ![r] = bodyRead(@, @.broken)]
    /\ written' = written \cup errorLogWrites(inreq[r].broken)
    /\ UNCHANGED <<secondaries, primRes, rw, tpc, attempts, metrics, calls>>
    /\ UNCHANGED <<validatorVars, sanitizerVars, joinVars, loggerVars, broadcastVars, bodyVars>>

\* A request arrives: the request is counted by a task of its own and
\* readRequestBody returns the buffered inbound body (nil when reading failed).
HandlerBegin(r) ==
    /\ hpc[r] = "idle"
    /\ hpc' = [hpc EXCEPT ![r] = "read"]
    /\ pending' = goIncrement(pending, RequestCount)
    /\ inreq' = [inreq EXCEPT ![r] = bodyRead(@, @.broken)]
    /\ written' = written \cup errorLogWrites(inreq[r].broken)
    /\ UNCHANGED <<secondaries, primRes, rw, dnext, tpc, attempts, metrics, calls>>
    /\ UNCHANGED <<validatorVars, sanitizerVars, joinVars, loggerVars, broadcastVars, bodyVars>>

\* A faulty variant: the handler answers for a primary it has only just invoked.
HandlerPrimaryInvoke_answersAtOnce(r) ==
    /\ hpc[r] = "read"
    /\ hpc' = [hpc EXCEPT ![r] = "primaryRT"]
    /\ attempts' = roundTripStarted(attempts, r, PrimaryTag)
    /\ calls' = invoke(calls, r, PrimarySlot, PrimaryTag, "primary")
    /\ written' = written \cup {DefaultTransport}
    /\ rw' = [rw EXCEPT ![r] = WriteHeader(@, StatusServiceUnavailable)]
    /\ UNCHANGED <<secondaries, primRes, dnext, tpc, pending, metrics, inreq>>
    /\ UNCHANGED <<validatorVars, sanitizerVars, joinVars, loggerVars, broadcastVars, bodyVars>>

\* A faulty variant: the dispatcher task is started along with the primary invocation.
HandlerPrimaryInvoke_startsDispatcher(r) ==
    /\ hpc[r] = "read"
    /\ hpc' = [hpc EXCEPT ![r] = "primaryRT"]
    /\ attempts' = roundTripStarted(attempts, r, PrimaryTag)
    /\ calls' = invoke(calls, r, PrimarySlot, PrimaryTag, "primary")
    /\ written' = written \cup {DefaultTransport}
    /\ dnext' = [dnext EXCEPT ![r] = 1]
    /\ UNCHANGED <<secondaries, primRes, rw, tpc, pending, metrics, inreq>>
    /\ UNCHANGED <<validatorVars, sanitizerVars, joinVars, loggerVars, broadcastVars, bodyVars>>

\* The primary clone is built and handed to requestToBackend, which starts
\* its timing span, sets the shared transport and calls transport.RoundTrip.
HandlerPrimaryInvoke(r) ==
    /\ hpc[r] = "read"
    /\ hpc' = [hpc EXCEPT ![r] = "primaryRT"]
    /\ attempts' = roundTripStarted(attempts, r, PrimaryTag)
    /\ calls' = invoke(calls, r, PrimarySlot, PrimaryTag, "primary")
    /\ written' = written \cup {DefaultTransport}
    /\ UNCHANGED <<secondaries, primRes, rw, dnext, tpc, pending, metrics, inreq>>
    /\ UNCHANGED <<validatorVars, sanitizerVars, joinVars, loggerVars, broadcastVars, bodyVars>>

\* A faulty variant: a failed primary round trip is tried once more.
HandlerPrimaryReturn_retry(r) ==
    /\ hpc[r] = "primaryRT"
    /\ \E res \in roundTrip(calls[r][PrimarySlot], inreq[r].cancelled) :
        IF res.kind = "err" /\ attempts[r][PrimaryTag] < 2
        THEN /\ attempts' = roundTripStarted(attempts, r, PrimaryTag)
             /\ UNCHANGED <<primRes, pending, rw, hpc, calls, written>>
        ELSE /\ primRes' = [primRes EXCEPT ![r] = res]
             /\ pending' = goIncrement(pending, outcomeTag("primary", res))
             /\ rw' = [rw EXCEPT ![r] = writeCallerResponse(@, res)]
             /\ hpc' = [hpc EXCEPT ![r] = "responded"]
             /\ calls' = [calls EXCEPT ![r][PrimarySlot] = requestToBackendReturns(@, res)]
             /\ written' = written \cup errorLogWrites(res.kind = "err")
             /\ UNCHANGED attempts
    /\ UNCHANGED <<secondaries, dnext, tpc, metrics, inreq>>
    /\ UNCHANGED <<validatorVars, sanitizerVars, joinVars, loggerVars, broadcastVars, bodyVars>>

\* The primary round trip returns: requestToBackend has its outcome counted
\* by a task of its own and ends its timing span, and the handler writes the
\* caller's response.
HandlerPrimaryReturn(r) ==
    /\ hpc[r] = "primaryRT"
    /\ \E res \in roundTrip(calls[r][PrimarySlot], inreq[r].cancelled) :
        /\ primRes' = [primRes EXCEPT ![r] = res]
        /\ pending' = goIncrement(pending, outcomeTag("primary", res))
        /\ rw' = [rw EXCEPT ![r] = writeCallerResponse(@, res)]
        /\ calls' = [calls EXCEPT ![r][PrimarySlot] = requestToBackendReturns(@, res)]
        /\ written' = written \cup errorLogWrites(res.kind = "err")
    /\ hpc' = [hpc EXCEPT ![r] = "responded"]
    /\ UNCHANGED <<secondaries, dnext, tpc, attempts, metrics, inreq>>
    /\ UNCHANGED <<validatorVars, sanitizerVars, joinVars, loggerVars, broadcastVars, bodyVars>>

\* A faulty variant: the secondaries are dispatched only when the primary answered.
HandlerReturn_onPrimarySuccess(r) ==
    /\ hpc[r] = "responded"
    /\ hpc' = [hpc EXCEPT ![r] = "done"]
    /\ dnext' = [dnext EXCEPT ![r] =
                    IF primRes[r].kind = "res" THEN 1 ELSE Len(secondaries) + 1]
    /\ UNCHANGED <<secondaries, primRes, rw, tpc, attempts, pending, metrics>>
    /\ UNCHANGED <<inreq, calls, written>>
    /\ UNCHANGED <<validatorVars, sanitizerVars, joinVars, loggerVars, broadcastVars, bodyVars>>

\* A faulty variant: the handler joins the secondary tasks before it returns.
HandlerReturn_joins(r) ==
    /\ hpc[r] = "responded"
    /\ \/ /\ dnext[r] = 0
          /\ dnext' = [dnext EXCEPT ![r] = 1]
          /\ UNCHANGED hpc
       \/ /\ dnext[r] > Len(secondaries)
          /\ \A i \in 1..Len(secondaries) : tpc[r][i] \in {"res", "err"}
          /\ hpc' = [hpc EXCEPT ![r] = "done"]
          /\ UNCHANGED dnext
    /\ UNCHANGED <<secondaries, primRes, rw, tpc, attempts, pending, metrics>>
    /\ UNCHANGED <<inreq, calls, written>>
    /\ UNCHANGED <<validatorVars, sanitizerVars, joinVars, loggerVars, broadcastVars, bodyVars>>

\* The handler starts the dispatcher task and returns without joining it.
HandlerReturn(r) ==
    /\ hpc[r] = "responded"
    /\ hpc' = [hpc EXCEPT ![r] = "done"]
    /\ dnext' = [dnext EXCEPT ![r] = 1]
    /\ UNCHANGED <<secondaries, primRes, rw, tpc, attempts, pending, metrics>>
    /\ UNCHANGED <<inreq, calls, written>>
    /\ UNCHANGED <<validatorVars, sanitizerVars, joinVars, loggerVars, broadcastVars, bodyVars>>

\* The inbound body stream of a request that has not arrived yet breaks:
\* ioutil.ReadAll will return an error for it.
InboundStreamBreaks(r) ==
    /\ hpc[r] = "idle"
    /\ ~inreq[r].broken
    /\ inreq' = [inreq EXCEPT ![r].broken = TRUE]
    /\ UNCHANGED <<secondaries, hpc, primRes, rw, dnext, tpc, attempts, pending, metrics>>
    /\ UNCHANGED <<calls, written>>
    /\ UNCHANGED <<validatorVars, sanitizerVars, joinVars, loggerVars, broadcastVars, bodyVars>>

\* The caller goes away: the server cancels the context of the inbound request.
CallerDisconnects(r) ==
    /\ hpc[r] # "idle"
    /\ ~inreq[r].cancelled
    /\ inreq' = [inreq EXCEPT ![r].cancelled = TRUE]
    /\ UNCHANGED <<secondaries, hpc, primRes, rw, dnext, tpc, attempts, pending, metrics>>
    /\ UNCHANGED <<calls, written>>
    /\ UNCHANGED <<validatorVars, sanitizerVars, joinVars, loggerVars, broadcastVars, bodyVars>>

----------------------------------------------------------------------------
(* Dispatch Engine: the secondary phase *)

\* A faulty variant: the loop steps over every other secondary.
SecondaryDispatch_skips(r) ==
    /\ dnext[r] \in 1..Len(secondaries)
    /\ tpc' = [tpc EXCEPT ![r][dnext[r]] = "roundTrip"]
    /\ attempts' = roundTripStarted(attempts, r, secondaries[dnext[r]])
    /\ calls' = invoke(calls, r, dnext[r], secondaries[dnext[r]], "secondary")
    /\ written' = written \cup {DefaultTransport}
    /\ dnext' = [dnext EXCEPT ![r] = @ + 2]
    /\ UNCHANGED <<secondaries, hpc, primRes, rw, pending, metrics, inreq>>
    /\ UNCHANGED <<validatorVars, sanitizerVars, joinVars, loggerVars, broadcastVars, bodyVars>>

\* One iteration of the dispatcher's loop: the clone for the next secondary is
\* built and its task started, which hands the clone to requestToBackend.
SecondaryDispatch(r) ==
    /\ dnext[r] \in TaskIds
    /\ tpc' = [tpc EXCEPT ![r][dnext[r]] = "roundTrip"]
    /\ attempts' = roundTripStarted(attempts, r, secondaries[dnext[r]])
    /\ calls' = invoke(calls, r, dnext[r], secondaries[dnext[r]], "secondary")
    /\ written' = written \cup {DefaultTransport}
    /\ dnext' = [dnext EXCEPT ![r] = @ + 1]
    /\ UNCHANGED <<secondaries, hpc, primRes, rw, pending, metrics, inreq>>
    /\ UNCHANGED <<validatorVars, sanitizerVars, joinVars, loggerVars, broadcastVars, bodyVars>>

\* A faulty variant: a secondary's response is copied to the caller.
SecondaryReturn_writesCaller(r, i) ==
    /\ tpc[r][i] = "roundTrip"
    /\ \E res \in roundTrip(calls[r][i], inreq[r].cancelled) :
        /\ pending' = goIncrement(pending, outcomeTag("secondary", res))
        /\ tpc' = [tpc EXCEPT ![r][i] = res.kind]
        /\ rw' = [rw EXCEPT ![r] = IF res.kind = "res" THEN copyResponse(@, res) ELSE @]
        /\ calls' = [calls EXCEPT ![r][i] = requestToBackendReturns(@, res)]
        /\ written' = written \cup errorLogWrites(res.kind = "err")
    /\ UNCHANGED <<secondaries, hpc, primRes, dnext, attempts, metrics, inreq>>
    /\ UNCHANGED <<validatorVars, sanitizerVars, joinVars, loggerVars, broadcastVars, bodyVars>>

\* A faulty variant: a failed secondary ends the dispatcher's loop.
SecondaryReturn_failureStopsFanOut(r, i) ==
    /\ tpc[r][i] = "roundTrip"
    /\ \E res \in roundTrip(calls[r][i], inreq[r].cancelled) :
        /\ pending' = goIncrement(pending, outcomeTag("secondary", res))
        /\ tpc' = [tpc EXCEPT ![r][i] = res.kind]
        /\ dnext' = [dnext EXCEPT ![r] =
                        IF res.kind = "err" THEN Len(secondaries) + 1 ELSE @]
        /\ calls' = [calls EXCEPT ![r][i] = requestToBackendReturns(@, res)]
        /\ written' = written \cup errorLogWrites(res.kind = "err")
    /\ UNCHANGED <<secondaries, hpc, primRes, rw, attempts, metrics, inreq>>
    /\ UNCHANGED <<validatorVars, sanitizerVars, joinVars, loggerVars, broadcastVars, bodyVars>>

\* A secondary round trip returns: requestToBackend has its outcome counted
\* by a task of its own and ends its timing span; a response is drained and
\* dropped.
SecondaryReturn(r, i) ==
    /\ tpc[r][i] = "roundTrip"
    /\ \E res \in roundTrip(calls[r][i], inreq[r].cancelled) :
        /\ pending' = goIncrement(pending, outcomeTag("secondary", res))
        /\ tpc' = [tpc EXCEPT ![r][i] = res.kind]
        /\ calls' = [calls EXCEPT ![r][i] = requestToBackendReturns(@, res)]
        /\ written' = written \cup errorLogWrites(res.kind = "err")
    /\ UNCHANGED <<secondaries, hpc, primRes, rw, dnext, attempts, metrics, inreq>>
    /\ UNCHANGED <<validatorVars, sanitizerVars, joinVars, loggerVars, broadcastVars, bodyVars>>

----------------------------------------------------------------------------
(* Metrics Reporter *)

\* One Increment task runs (the reporter of the tests: a locked map).
ReporterIncrement(tag) ==
    /\ pending[tag] > 0
    /\ pending' = [pending EXCEPT ![tag] = @ - 1]
    /\ metrics' = [metrics EXCEPT ![tag] = @ + 1]
    /\ written' = written \cup {Reporter}
    /\ UNCHANGED <<secondaries, hpc, primRes, rw, dnext, tpc, attempts, inreq, calls>>
    /\ UNCHANGED <<validatorVars, sanitizerVars, joinVars, loggerVars, broadcastVars, bodyVars>>

----------------------------------------------------------------------------

Next ==
    \/ \E r \in Requests : HandlerBegin(r)
    \/ \E r \in Requests : HandlerPrimaryInvoke(r)
    \/ \E r \in Requests : HandlerPrimaryReturn(r)
    \/ \E r \in Requests : HandlerReturn(r)
    \/ \E r \in Requests : SecondaryDispatch(r)
    \/ \E r \in Requests : \E i \in TaskIds : SecondaryReturn(r, i)
    \/ \E tag \in MetricTags : ReporterIncrement(tag)

Spec == Init /\ [][Next]_vars

\* The fair specification: every runnable task of the director is scheduled
\* (handler, dispatcher, Increment tasks); nothing obliges a request to arrive
\* or a backend to answer.
NextLive ==
    \/ \E r \in LiveRequests : HandlerBegin(r)
    \/ \E r \in LiveRequests : HandlerPrimaryInvoke(r)
    \/ \E r \in LiveRequests : HandlerPrimaryReturn(r)
    \/ \E r \in LiveRequests : HandlerReturn(r)
    \/ \E r \in LiveRequests : SecondaryDispatch(r)
    \/ \E r \in LiveRequests : \E i \in TaskIds : SecondaryReturn(r, i)
    \/ \E tag \in MetricTags : ReporterIncrement(tag)

Fairness ==
    /\ \A r \in LiveRequests : WF_vars(HandlerPrimaryInvoke(r))
    /\ \A r \in LiveRequests : WF_vars(HandlerReturn(r))
    /\ \A r \in LiveRequests : WF_vars(SecondaryDispatch(r))
    /\ \A tag \in MetricTags : WF_vars(ReporterIncrement(tag))

SpecFair == Init /\ [][NextLive]_vars /\ Fairness

\* One request served whose body stream may break and whose caller may go
\* away at any moment.
NextServe ==
    \/ NextLive
    \/ \E r \in LiveRequests : InboundStreamBreaks(r)
    \/ \E r \in LiveRequests : CallerDisconnects(r)

SpecServe == Init /\ [][NextServe]_vars

----------------------------------------------------------------------------
(* Notions the properties use *)


\* The dispatcher of r has left its loop.
DispatchFinished(r) == dnext[r] > NumSecondaries

\* Every secondary task of r has returned from its round trip.
TasksFinished(r) == \A i \in TaskIds : tpc[r][i] \in {"res", "err"}

\* The requests whose handler has returned: the caller has the whole response.
Handled == {r \in Requests : hpc[r] = "done"}

\* The secondary tasks, of all requests, that ended with the given outcome.
TasksEnded(kind) == {<<r, i>> \in Requests \X TaskIds : tpc[r][i] = kind}

\* No handler is under way and every task any handler started has finished.
Quiescent ==
    /\ \A r \in Requests : hpc[r] \in {"idle", "done"}
    /\ \A r \in Handled : DispatchFinished(r) /\ TasksFinished(r)
    /\ \A t \in MetricTags : pending[t] = 0

\* The body the caller gets from an answering primary: the primary's body, or,
\* when its stream breaks, the chunks before the break and the error's text.
StreamedBody(res) ==
    IF res.readErrAt < 0
    THEN res.body
    ELSE SubSeq(res.body, 1, res.readErrAt) \o <<Chunk(PrimaryTag, "copy error")>>

----------------------------------------------------------------------------
(* Properties *)

C2_PrimaryFailureIs503 ==
    \A r \in Requests :
        primRes[r].kind = "err" =>
            /\ rw[r].status = StatusServiceUnavailable
            /\ rw[r].body = TransportError(PrimaryTag).body
            /\ rw[r].header = EmptyHeader

\* C2 witness: the primary failed and a secondary of the request answered.
C2_Witness ==
    \E r \in Requests :
        /\ primRes[r].kind = "err"
        /\ rw[r].status = StatusServiceUnavailable
        /\ \E i \in TaskIds : tpc[r][i] = "res"

C5_PrimaryFirst ==
    /\ [](\A r \in Requests :
            (dnext[r] > 0 \/ \E b \in SecondaryTags : attempts[r][b] > 0)
                => attempts[r][PrimaryTag] = 1)
    /\ \A r \in Requests : (hpc[r] = "read") ~> (attempts[r][PrimaryTag] = 1)

\* C5 witness: a request with the primary and a secondary both invoked.
C5_Witness ==
    \E r \in Requests :
        /\ attempts[r][PrimaryTag] = 1
        /\ \E b \in Range(secondaries) : attempts[r][b] = 1

C7_HandlerNeverWaits ==
    \A r \in Requests : (hpc[r] = "responded") ~> (hpc[r] = "done")

\* C7 witness: the handler has returned while both secondary round trips of
\* its request are still under way.
C7_Witness ==
    \E r \in Requests :
        /\ hpc[r] = "done"
        /\ NumSecondaries = 2
        /\ \A i \in TaskIds : tpc[r][i] = "roundTrip"

\* C8: when all is over, secondary.failure.count is the number of failed
\* secondary round trips and secondary.success.count the number of answered
\* ones; and for a request with a failed secondary, the finished dispatcher
\* has still invoked every secondary once and the caller's response is the one
\* the primary's result alone determines.
C8_SecondaryFailureContained ==
    /\ Quiescent =>
          /\ metrics[SecondaryFailure] = Cardinality(TasksEnded("err"))
          /\ metrics[SecondarySuccess] = Cardinality(TasksEnded("res"))
    /\ \A r \in Requests :
          (\E i \in TaskIds : tpc[r][i] = "err") =>
              /\ DispatchFinished(r) =>
                    \A j \in TaskIds : attempts[r][secondaries[j]] = 1
              /\ rw[r] = writeCallerResponse(NewResponseWriter, primRes[r])

\* C8 witness: all is over and the first secondary of a request failed while
\* the second was invoked and answered.
C8_Witness ==
    \E r \in Requests :
        /\ Quiescent
        /\ NumSecondaries = 2
        /\ tpc[r][1] = "err"
        /\ tpc[r][2] = "res"
        /\ metrics[SecondaryFailure] >= 1

\* C9: once the caller has the complete response of a request (its handler has
\* returned), director.request.count and primary.success.count +
\* primary.failure.count include that request.
C9_CountedWhenResponded ==
    /\ metrics[RequestCount] >= Cardinality(Handled)
    /\ metrics[PrimarySuccess] + metrics[PrimaryFailure] >= Cardinality(Handled)

----------------------------------------------------------------------------
(* Configuration Validator: validate and NewDirector *)

\* The orders in which a range statement may visit the keys of a map.
RangeOrders(m) ==
    {ord \in [1..Cardinality(DOMAIN m) -> DOMAIN m] :
        \A i, j \in DOMAIN ord : i # j => ord[i] # ord[j]}

\* opened: os.OpenFile succeeded. A log file that cannot be opened leaves the
\* output as it is; the level is set in every case.
configureLogger(lg, options, opened) ==
    [level |-> options.LogLevel,
     output |-> IF options.LogFile # "" /\ opened THEN options.LogFile
                ELSE lg.output]

\* A faulty variant: the primary is appended to the secondaries as well.
RECURSIVE rangeBackends_primaryAmongSecondaries(_, _, _)
rangeBackends_primaryAmongSecondaries(cfg, ord, i) ==
    IF i > Len(ord) THEN [config |-> cfg, err |-> NilError]
    ELSE LET k == ord[i]
             v == cfg.Backends.kv[k]
             parsed == urlParse(v)
         IN  IF v = "" THEN [config |-> cfg, err |-> proxyError(ErrNoBackendData, k)]
             ELSE IF parsed.err # "" THEN [config |-> cfg, err |-> proxyError(ErrInvalidURL, k)]
             ELSE rangeBackends_primaryAmongSecondaries(
                      [cfg EXCEPT !.primary = IF k = cfg.Options.PrimaryEndpoint
                                              THEN NewBackend(k, parsed.url) ELSE @,
                                  !.secondaries = Append(@, NewBackend(k, parsed.url))],
                      ord, i + 1)

\* The loop over config.Backends from its i-th iteration on, in the order ord:
\* the first value that is empty or does not parse ends validate with its
\* error; every other entry becomes the primary or is appended to the
\* secondaries.
RECURSIVE rangeBackends(_, _, _)
rangeBackends(cfg, ord, i) ==
    IF i > Len(ord) THEN [config |-> cfg, err |-> NilError]
    ELSE LET k == ord[i]
             v == cfg.Backends.kv[k]
             parsed == urlParse(v)
         IN  IF v = "" THEN [config |-> cfg, err |-> proxyError(ErrNoBackendData, k)]
             ELSE IF parsed.err # "" THEN [config |-> cfg, err |-> proxyError(ErrInvalidURL, k)]
             ELSE IF k = cfg.Options.PrimaryEndpoint
                  THEN rangeBackends([cfg EXCEPT !.primary = NewBackend(k, parsed.url)], ord, i + 1)
                  ELSE rangeBackends([cfg EXCEPT !.secondaries = Append(@, NewBackend(k, parsed.url))],
                                     ord, i + 1)

\* A faulty variant: the primary endpoint is checked ahead of the port.
validate_primaryEndpointFirst(cfg, lg, ord, statsdFailed, opened) ==
    IF cfg.nil THEN [config |-> cfg, logger |-> lg, err |-> proxyError(ErrNoConfig, "")]
    ELSE IF cfg.Options.nil
    THEN [config |-> cfg, logger |-> lg, err |-> proxyError(ErrNoOptions, "")]
    ELSE
    LET lg1 == configureLogger(lg, cfg.Options, opened)
        cfg1 == [cfg EXCEPT !.Options.metricsReporter =
                    IF cfg.Options.EnableStatsD THEN StatsDReporter ELSE NoopReporter]
        ranged == rangeBackends(cfg1, ord, 1)
    IN  IF cfg.Options.PrimaryEndpoint = ""
        THEN [config |-> cfg, logger |-> lg1, err |-> proxyError(ErrNoPrimaryEndpoint, "")]
        ELSE IF cfg.Options.Port = 0
        THEN [config |-> cfg, logger |-> lg1, err |-> proxyError(ErrNoPort, "")]
        ELSE IF cfg.Options.EnableStatsD /\ statsdFailed
        THEN [config |-> cfg, logger |-> lg1, err |-> proxyError(ErrStatsD, "")]
        ELSE IF cfg1.Backends.nil \/ Cardinality(DOMAIN cfg1.Backends.kv) = 0
        THEN [config |-> cfg1, logger |-> lg1, err |-> proxyError(ErrNoBackends, "")]
        ELSE IF cfg1.Options.PrimaryEndpoint \notin DOMAIN cfg1.Backends.kv
        THEN [config |-> cfg1, logger |-> lg1, err |-> proxyError(ErrPrimaryMissing, "")]
        ELSE [config |-> ranged.config, logger |-> lg1, err |-> ranged.err]

\* validate: what it returns and what it leaves in the config object and in
\* the process-wide logger state. ord is the order in which the range over
\* config.Backends visits the keys, statsdFailed says that
\* metrics.NewStatsDReporter returned an error, opened that os.OpenFile
\* succeeded.
validate(cfg, lg, ord, statsdFailed, opened) ==
    IF cfg.nil THEN [config |-> cfg, logger |-> lg, err |-> proxyError(ErrNoConfig, "")]
    ELSE IF cfg.Options.nil
    THEN [config |-> cfg, logger |-> lg, err |-> proxyError(ErrNoOptions, "")]
    ELSE
    LET lg1 == configureLogger(lg, cfg.Options, opened)
        cfg1 == [cfg EXCEPT !.Options.metricsReporter =
                    IF cfg.Options.EnableStatsD THEN StatsDReporter ELSE NoopReporter]
        ranged == rangeBackends(cfg1, ord, 1)
    IN  IF cfg.Options.Port = 0
        THEN [config |-> cfg, logger |-> lg1, err |-> proxyError(ErrNoPort, "")]
        ELSE IF cfg.Options.EnableStatsD /\ statsdFailed
        THEN [config |-> cfg, logger |-> lg1, err |-> proxyError(ErrStatsD, "")]
        ELSE IF cfg1.Options.PrimaryEndpoint = ""
        THEN [config |-> cfg1, logger |-> lg1, err |-> proxyError(ErrNoPrimaryEndpoint, "")]
        ELSE IF cfg1.Backends.nil \/ Cardinality(DOMAIN cfg1.Backends.kv) = 0
        THEN [config |-> cfg1, logger |-> lg1, err |-> proxyError(ErrNoBackends, "")]
        ELSE IF cfg1.Options.PrimaryEndpoint \notin DOMAIN cfg1.Backends.kv
        THEN [config |-> cfg1, logger |-> lg1, err |-> proxyError(ErrPrimaryMissing, "")]
        ELSE [config |-> ranged.config, logger |-> lg1, err |-> ranged.err]

\* The calls NewDirector makes on one config object.
MaxNewDirectorCalls == 2

\* NewDirector(config): validate, and on success the director built from the
\* config's port, reporter, primary and secondaries.
NewDirector ==
    /\ ncalls < MaxNewDirectorCalls
    /\ \E ord \in RangeOrders(config.Backends.kv), statsdFailed \in BOOLEAN, opened \in BOOLEAN :
        LET v == validate(config, logger, ord, statsdFailed, opened)
        IN  /\ before' = [config |-> config, logger |-> logger]
            /\ config' = v.config
            /\ logger' = v.logger
            /\ verr' = v.err
            /\ director' =
                IF v.err # NilError THEN NilDirector
                ELSE [nil |-> FALSE, port |-> v.config.Options.Port,
                      reporter |-> v.config.Options.metricsReporter,
                      primary |-> v.config.primary,
                      secondaries |-> v.config.secondaries]
    /\ ncalls' = ncalls + 1
    /\ UNCHANGED <<dispatchVars, sanitizerVars, joinVars, loggerVars, broadcastVars, bodyVars>>

InitValidator ==
    /\ config \in ConfigInputs
    /\ logger = StartLogger
    /\ verr = NilError
    /\ director = NilDirector
    /\ before = [config |-> config, logger |-> logger]
    /\ ncalls = 0
    /\ DispatchUnused /\ SanitizerUnused /\ JoinUnused
    /\ LoggerUnused /\ BroadcastUnused /\ BodyUnused

\* NewDirector called on a config object as it was supplied.
NextValidate == ncalls = 0 /\ NewDirector
SpecValidate == InitValidator /\ [][NextValidate]_vars

\* NewDirector called again and again on the same config object.
NextRevalidate == NewDirector
SpecRevalidate == InitValidator /\ [][NextRevalidate]_vars

----------------------------------------------------------------------------
(* Configuration Validator: properties *)

\* NewDirector has been called on the config object and returned.
Validated == ncalls > 0

\* The seven checks, numbered in the order validate makes them, as
\* conditions on the config as it was supplied.
Checks == 1..7
CheckFails(n, cfg) ==
    CASE n = 1 -> cfg.nil
      [] n = 2 -> cfg.Options.nil
      [] n = 3 -> cfg.Options.Port = 0
      [] n = 4 -> cfg.Options.PrimaryEndpoint = ""
      [] n = 5 -> cfg.Backends.nil \/ DOMAIN cfg.Backends.kv = {}
      [] n = 6 -> cfg.Options.PrimaryEndpoint \notin DOMAIN cfg.Backends.kv
      [] n = 7 -> \E k \in DOMAIN cfg.Backends.kv :
                    cfg.Backends.kv[k] = "" \/ urlParse(cfg.Backends.kv[k]).err # ""

\* The first check that fails, 0 when none does.
FirstFailing(cfg) ==
    IF \E n \in Checks : CheckFails(n, cfg)
    THEN CHOOSE n \in Checks :
            CheckFails(n, cfg) /\ \A m \in 1..(n - 1) : ~CheckFails(m, cfg)
    ELSE 0

\* The error messages of each check, and the errors check n may return on cfg.
CheckMessages(n) ==
    CASE n = 1 -> {ErrNoConfig}
      [] n = 2 -> {ErrNoOptions}
      [] n = 3 -> {ErrNoPort}
      [] n = 4 -> {ErrNoPrimaryEndpoint}
      [] n = 5 -> {ErrNoBackends}
      [] n = 6 -> {ErrPrimaryMissing}
      [] n = 7 -> {ErrNoBackendData, ErrInvalidURL}
CheckErrors(n, cfg) ==
    CASE n = 0 -> {NilError}
      [] n = 7 -> {proxyError(ErrNoBackendData, k) :
                        k \in {j \in DOMAIN cfg.Backends.kv : cfg.Backends.kv[j] = ""}}
                  \cup
                  {proxyError(ErrInvalidURL, k) :
                        k \in {j \in DOMAIN cfg.Backends.kv :
                                  /\ cfg.Backends.kv[j] # ""
                                  /\ urlParse(cfg.Backends.kv[j]).err # ""}}
      [] OTHER -> {proxyError(m, "") : m \in CheckMessages(n)}
DistinctErrors ==
    \A n, m \in Checks :
        n # m => /\ CheckMessages(n) \cap CheckMessages(m) = {}
                 /\ "" \notin CheckMessages(n)

\* C11 as stated: validate returns the error of the first of the seven checks
\* that fails, each check has an error of its own, and a config that passes
\* all seven is accepted.
C11_FirstFailingOfSevenChecks ==
    Validated =>
        /\ verr \in CheckErrors(FirstFailing(before.config), before.config)
        /\ DistinctErrors

\* C11: validate returns the error of the first of the seven checks that
\* fails, each check has an error of its own, and a config that passes all
\* seven is accepted; except that with StatsD enabled a config that passes
\* the first three checks may be refused with the StatsD error, whatever the
\* later checks say.
C11_FirstFailingCheckOrStatsD ==
    Validated =>
        /\ \/ verr \in CheckErrors(FirstFailing(before.config), before.config)
           \/ /\ FirstFailing(before.config) \notin {1, 2, 3}
              /\ before.config.Options.EnableStatsD
              /\ verr = proxyError(ErrStatsD, "")
        /\ ~before.config.Options.EnableStatsD =>
              verr \in CheckErrors(FirstFailing(before.config), before.config)
        /\ DistinctErrors /\ ErrStatsD \notin UNION {CheckMessages(n) : n \in Checks}

\* A config that passes the seven checks is refused for its StatsD service.
C11_Witness ==
    /\ Validated
    /\ FirstFailing(before.config) = 0
    /\ verr = proxyError(ErrStatsD, "")

\* C12: NewDirector fails with the port error for every config (with options)
\* whose port is zero or negative.
C12_NonPositivePortRejected ==
    (Validated /\ ~before.config.nil /\ ~before.config.Options.nil
               /\ before.config.Options.Port <= 0)
        => verr = proxyError(ErrNoPort, "")

\* The backends of an accepted config other than its primary.
NonPrimaryIds(cfg) == DOMAIN cfg.Backends.kv \ {cfg.Options.PrimaryEndpoint}
BackendOf(cfg, k) == NewBackend(k, urlParse(cfg.Backends.kv[k]).url)

\* C13: for every config validate accepts, primary is the backend whose id is
\* the primary endpoint id, the secondaries are exactly the remaining
\* backends, the primary is not among them, and there are |backends| - 1 of
\* them; the director is built from these.
C13_PartitionInvariant ==
    (Validated /\ verr = NilError) =>
        /\ config.primary = BackendOf(config, config.Options.PrimaryEndpoint)
        /\ Range(config.secondaries) = {BackendOf(config, k) : k \in NonPrimaryIds(config)}
        /\ config.primary \notin Range(config.secondaries)
        /\ \A i \in DOMAIN config.secondaries :
                config.secondaries[i].id # config.Options.PrimaryEndpoint
        /\ Len(config.secondaries) = Cardinality(DOMAIN config.Backends.kv) - 1
        /\ director.primary = config.primary
        /\ director.secondaries = config.secondaries

\* A config of three backends is accepted.
C13_Witness ==
    /\ Validated /\ verr = NilError
    /\ Cardinality(DOMAIN config.Backends.kv) = 3
    /\ Len(director.secondaries) = 2

\* C14: when NewDirector returns an error, the config object and the
\* process-wide logger state are as they were before the call.
C14_FailureChangesNothing ==
    (Validated /\ verr # NilError) =>
        /\ config = before.config
        /\ logger = before.logger

\* C15: however many times NewDirector is called on the same config object,
\* the director's secondaries hold each non-primary backend exactly once.
C15_PartitionedOnce ==
    ~director.nil =>
        /\ \A k \in NonPrimaryIds(config) :
                Cardinality({i \in DOMAIN director.secondaries :
                                director.secondaries[i].id = k}) = 1
        /\ Len(director.secondaries) = Cardinality(NonPrimaryIds(config))

----------------------------------------------------------------------------
(* Request Sanitizer: its specification *)

\* The addresses newRequest is given: backend.addr of the primary and of a secondary.
TargetURLs == {urlParse(BackendURL(k)).url : k \in BackendIds}

\* The clones built from one inbound request.
MaxClones == 2

InitSanitizer ==
    /\ copiesURL \in BOOLEAN
    /\ \E content \in HeaderInputs, shape \in InboundShapes :
        LET made == makeHeader(NewHeap, content)
        IN  /\ hmaps = made.heap.maps
            /\ hslices = made.heap.slices
            /\ arrived = content
            /\ inbound =
                [req |-> [Method |-> shape.Method,
                          URL |-> [Scheme |-> "", Host |-> "", Path |-> shape.Path,
                                   RawQuery |-> shape.RawQuery],
                          URLobj |-> InboundURL,
                          Header |-> made.h, Body |-> shape.Body,
                          ContentLength |-> Len(shape.Body),
                          Host |-> "director:8080", Close |-> FALSE,
                          ctx |-> RequestContext],
                 sent |-> shape.Body, body |-> NilBytes,
                 reads |-> 0, readFailed |-> FALSE, cancelled |-> FALSE]
    /\ clones = <<>>
    /\ built = <<>>
    /\ DispatchUnused /\ ValidatorUnused /\ JoinUnused
    /\ LoggerUnused /\ BroadcastUnused /\ BodyUnused

\* The handler buffers the inbound body: the stream is read to its end or to
\* its first error, and is drained after that.
ReadRequestBody ==
    /\ inbound.reads = 0
    /\ \E failed \in BOOLEAN :
        inbound' = bodyRead(inbound, failed)
    /\ UNCHANGED <<hmaps, hslices, clones, arrived, copiesURL, built>>
    /\ UNCHANGED <<dispatchVars, validatorVars, joinVars, loggerVars, broadcastVars, bodyVars>>

\* The handler or its dispatcher task builds the clone for one backend.
NewRequest(target) ==
    /\ inbound.reads > 0
    /\ Len(clones) < MaxClones
    /\ LET made == newRequest([maps |-> hmaps, slices |-> hslices,
                                cloneURL |-> copiesURL],
                               inbound.req, inbound.body, target)
           \* modifyRequestForProxy assigns to the fields of out_req.URL: every
           \* request that points to that URL object sees the new values.
           seen(req) == IF req.URLobj = made.req.URLobj /\ req.URLobj = InboundURL
                        THEN [req EXCEPT !.URL = made.req.URL] ELSE req
       IN  /\ hmaps' = made.heap.maps
           /\ hslices' = made.heap.slices
           /\ clones' = Append([i \in DOMAIN clones |-> seen(clones[i])], made.req)
           /\ inbound' = [inbound EXCEPT !.req = seen(@)]
           /\ built' = Append(built, [target |-> target, found |-> inbound.req.URL,
                                      returned |-> made.req.URL])
    /\ UNCHANGED <<arrived, copiesURL>>
    /\ UNCHANGED <<dispatchVars, validatorVars, joinVars, loggerVars, broadcastVars, bodyVars>>

NextSanitize ==
    \/ ReadRequestBody
    \/ \E target \in TargetURLs : NewRequest(target)
SpecSanitize == InitSanitizer /\ [][NextSanitize]_vars

----------------------------------------------------------------------------
(* Request Sanitizer: properties *)

\* The heap as it is, and the header of the i-th clone: key -> values.
Heap == [maps |-> hmaps, slices |-> hslices, cloneURL |-> copiesURL]
CloneHeader(i) == HeaderContent(Heap, clones[i].Header)
InboundHeader == HeaderContent(Heap, inbound.req.Header)

\* C16: a header of the hop-by-hop list that is on the inbound request is on
\* no clone newRequest built.
C16_HopHeadersStripped ==
    \A i \in DOMAIN clones : \A k \in Range(hopHeaders) :
        k \in DOMAIN arrived => k \notin DOMAIN CloneHeader(i)

\* The header keys the values of the inbound Connection header name: the
\* fields between commas of every value, trimmed, not empty, in canonical case.
NamedIn(value) ==
    {CanonicalMIMEHeaderKey(TrimSpace(f)) :
        f \in {g \in Range(Split(value)) : TrimSpace(g) # EmptyString}}
ConnectionNamed ==
    IF "Connection" \in DOMAIN arrived
    THEN UNION {NamedIn(arrived["Connection"][n]) : n \in DOMAIN arrived["Connection"]}
    ELSE {}

\* C17: a header the inbound Connection header names is on no clone.
C17_ConnectionNamedStripped ==
    \A i \in DOMAIN clones : \A k \in ConnectionNamed : k \notin DOMAIN CloneHeader(i)

\* The header maps in use: that of the inbound request and those of the clones.
HeadersInUse == {inbound.req.Header} \cup {clones[i].Header : i \in DOMAIN clones}
NoSharing ==
    /\ \A i \in DOMAIN clones : clones[i].Header # inbound.req.Header
    /\ \A i, j \in DOMAIN clones : i # j => clones[i].Header # clones[j].Header
    /\ \A h1, h2 \in HeadersInUse :
            h1 # h2 => Range(hmaps[h1]) \cap Range(hmaps[h2]) = {}

\* C18: the inbound request and the clones have header maps and value slices
\* of their own, and building a clone changes neither the inbound header nor
\* the header of a clone built before, in keys or in values.
C18_HeaderIsolation ==
    /\ [](NoSharing /\ InboundHeader = arrived)
    /\ [][/\ InboundHeader' = InboundHeader
          /\ \A i \in DOMAIN clones : CloneHeader(i)' = CloneHeader(i)]_vars

\* Two clones were built, each lost a header the inbound request keeps and
\* each got a User-Agent the inbound request does not have.
C18_Witness ==
    /\ Len(clones) = 2
    /\ "User-Agent" \notin DOMAIN InboundHeader
    /\ "Keep-Alive" \in DOMAIN InboundHeader
    /\ \A i \in DOMAIN clones :
            "User-Agent" \in DOMAIN CloneHeader(i) /\ "Keep-Alive" \notin DOMAIN CloneHeader(i)

\* C19: every clone has the inbound method, the buffered inbound body, and
\* every inbound header that is neither of the hop-by-hop list nor named in
\* Connection, values and their order unchanged; the only header a clone has
\* and the inbound request has not is an empty User-Agent.
C19_RestUnchanged ==
    \A i \in DOMAIN clones :
        /\ clones[i].Method = inbound.req.Method
        /\ clones[i].Body = inbound.body
        /\ \A k \in DOMAIN arrived :
                (k \notin Range(hopHeaders) /\ k \notin ConnectionNamed) =>
                    k \in DOMAIN CloneHeader(i) /\ CloneHeader(i)[k] = arrived[k]
        /\ \A k \in DOMAIN CloneHeader(i) \ DOMAIN arrived :
                k = "User-Agent" /\ CloneHeader(i)[k] = <<EmptyString>>

\* A POST with a header of two values and a User-Agent was cloned, and so was
\* a request without a User-Agent.
C19_Witness ==
    /\ Len(clones) = 2
    /\ clones[1].Method = "POST" /\ clones[1].Body = <<"b1", "b2">>
    /\ "X-Custom" \in DOMAIN CloneHeader(1) /\ Len(CloneHeader(1)["X-Custom"]) = 2
    /\ "User-Agent" \in DOMAIN arrived
    /\ "Connection" \in DOMAIN arrived

----------------------------------------------------------------------------
(* singleJoiningSlash on its own *)

\* The paths tried: every string of "/", "a" and "b" up to this length.
MaxPathLen == 3
PathChars == {"/", "a", "b"}
PathStrings == UNION {[1..n -> PathChars] : n \in 0..MaxPathLen}

NotCalled == [called |-> FALSE, out |-> EmptyString]

InitJoin ==
    /\ joinIn \in PathStrings \X PathStrings
    /\ joinOut = NotCalled
    /\ DispatchUnused /\ ValidatorUnused /\ SanitizerUnused
    /\ LoggerUnused /\ BroadcastUnused /\ BodyUnused

\* modifyRequestForProxy calls singleJoiningSlash(target.Path, out_req.URL.Path).
Join ==
    /\ ~joinOut.called
    /\ joinOut' = [called |-> TRUE, out |-> singleJoiningSlash(joinIn[1], joinIn[2])]
    /\ UNCHANGED joinIn
    /\ UNCHANGED <<dispatchVars, validatorVars, sanitizerVars, loggerVars, broadcastVars, bodyVars>>

NextJoin == Join
SpecJoin == InitJoin /\ [][NextJoin]_vars

\* a without the slash it ends with, b without the slash it starts with.
Stem(a) == IF HasSuffixSlash(a) THEN SubSeq(a, 1, Len(a) - 1) ELSE a
Rest(b) == IF HasPrefixSlash(b) THEN Tail(b) ELSE b

\* The three cases: one of two slashes dropped, a missing one inserted,
\* otherwise the two strings as they are.
JoinedByCases ==
    LET a == joinIn[1]
        b == joinIn[2]
    IN  /\ joinOut.out = Stem(a) \o <<"/">> \o Rest(b)
        /\ (HasSuffixSlash(a) /\ HasPrefixSlash(b)) => Len(joinOut.out) = Len(a) + Len(b) - 1
        /\ (~HasSuffixSlash(a) /\ ~HasPrefixSlash(b)) => Len(joinOut.out) = Len(a) + Len(b) + 1
        /\ (HasSuffixSlash(a) # HasPrefixSlash(b)) => joinOut.out = a \o b

\* join("/a/","/b") == join("/a","b") == join("/a/","b") == join("/a","/b") == "/a/b".
JoinExamples ==
    (joinIn \in {<<a, b>> : a \in {<<"/", "a">>, <<"/", "a", "/">>},
                            b \in {<<"b">>, <<"/", "b">>}})
        => joinOut.out = <<"/", "a", "/", "b">>

\* The slash that joins the two is the only one there: none before it, none after.
OneSlashAtSeam ==
    LET p == Len(Stem(joinIn[1])) + 1
    IN  /\ p \in DOMAIN joinOut.out /\ joinOut.out[p] = "/"
        /\ p > 1 => joinOut.out[p - 1] # "/"
        /\ p < Len(joinOut.out) => joinOut.out[p + 1] # "/"

\* C20 as stated: the result has exactly one slash at the seam, by the three
\* cases, for every a and b.
C20_AlwaysOneSlashAtSeam ==
    joinOut.called => (JoinedByCases /\ JoinExamples /\ OneSlashAtSeam)

\* C20: singleJoiningSlash(a, b) drops one of the two slashes when a ends and
\* b starts with one, inserts one when neither does, otherwise concatenates;
\* the four example calls return "/a/b"; and the result has exactly one slash
\* at the seam whenever a does not end, and b does not start, with two slashes.
C20_SingleJoiningSlash ==
    joinOut.called =>
        /\ JoinedByCases
        /\ JoinExamples
        /\ (~HasSuffixSlash(Stem(joinIn[1])) /\ ~HasPrefixSlash(Rest(joinIn[2])))
                => OneSlashAtSeam

\* Both slashes are there and one is dropped.
C20_Witness ==
    /\ joinOut.called
    /\ joinIn = << <<"/", "a", "/">>, <<"/", "b">> >>
    /\ joinOut.out = <<"/", "a", "/", "b">>


----------------------------------------------------------------------------
(* Request Sanitizer: the outbound URL *)

\* The address the i-th clone was built for.
TargetOf(i) == built[i].target

\* C21: the query of a clone is the target's when the request has none, the
\* request's when the target has none, empty when neither has one, and the
\* target's, "&", the request's when both have one.
C21_QueryMerged ==
    \A i \in DOMAIN clones :
        LET tq == TargetOf(i).RawQuery
            rq == built[i].found.RawQuery
            out == built[i].returned.RawQuery
        IN  /\ rq = EmptyString => out = tq
            /\ tq = EmptyString => out = rq
            /\ (tq = EmptyString /\ rq = EmptyString) => out = EmptyString
            /\ (tq # EmptyString /\ rq # EmptyString) => out = tq \o <<"&">> \o rq

\* Clones were built with both queries there and with only the target's.
C21_Witness ==
    /\ Len(clones) = 2
    /\ built[1].found.RawQuery # EmptyString
    /\ built[1].returned.RawQuery = <<"t=1", "&", "q">>
    /\ built[2].returned.RawQuery = <<"q">>


----------------------------------------------------------------------------
(* Request Sanitizer: the body *)

\* C22: the inbound stream is read once, before any clone is built; every
\* clone carries the buffered bytes, which are the bytes sent when reading
\* succeeded, with a content length that is their number, so all clones of a
\* request carry the same body.
C22_BodyBufferedOnce ==
    /\ inbound.reads <= 1
    /\ clones # <<>> => inbound.reads = 1
    /\ (inbound.reads = 1 /\ ~inbound.readFailed) => inbound.body = inbound.sent
    /\ \A i \in DOMAIN clones :
            /\ clones[i].Body = inbound.body
            /\ clones[i].ContentLength = Len(inbound.body)
    /\ \A i, j \in DOMAIN clones : clones[i].Body = clones[j].Body

\* The body of a POST was buffered and two clones carry it.
C22_Witness ==
    /\ Len(clones) = 2
    /\ inbound.sent = <<"b1", "b2">>
    /\ \A i \in DOMAIN clones :
            clones[i].Body = <<"b1", "b2">> /\ clones[i].ContentLength = 2
    /\ clones[1].URL.Host # clones[2].URL.Host

----------------------------------------------------------------------------
(* Dispatch Engine: one request in detail *)

\* The backend invocations of r that have begun, by slot.
Slots(r) == DOMAIN calls[r]

\* The metric prefix requestToBackend is given for the invocation in slot s.
PrefixOf(s) == IF s = PrimarySlot THEN "primary" ELSE "secondary"

\* C23: when reading the inbound body failed, every invocation of the request
\* carries an empty body and content length 0, a handler that has written has
\* invoked the primary and written its response or the 503, and a dispatcher
\* that has finished has invoked every secondary.
C23_ReadFailureNotFatal ==
    \A r \in Requests :
        inreq[r].readFailed =>
            /\ \A s \in Slots(r) :
                /\ calls[r][s].req.Body = <<>>
                /\ calls[r][s].req.ContentLength = 0
            /\ hpc[r] \in {"responded", "done"} =>
                /\ PrimarySlot \in Slots(r)
                /\ calls[r][PrimarySlot].outcome = primRes[r].kind
                /\ rw[r].status = IF primRes[r].kind = "res"
                                  THEN primRes[r].status
                                  ELSE StatusServiceUnavailable
            /\ hpc[r] = "done" => dnext[r] >= 1
            /\ DispatchFinished(r) => Slots(r) = {PrimarySlot} \cup TaskIds

\* C23 witness: the read failed, the primary answered and the caller has its
\* response, and two secondaries were invoked with the empty body and answered.
C23_Witness ==
    \E r \in Requests :
        /\ inreq[r].readFailed
        /\ hpc[r] = "done"
        /\ rw[r].status = StatusCreated
        /\ NumSecondaries = 2
        /\ \A i \in TaskIds : tpc[r][i] = "res" /\ calls[r][i].req.ContentLength = 0

\* C24: every invocation has started exactly one timing span; the span is open
\* while the round trip is under way and has been ended exactly once, with the
\* tag <prefix>.response_time, when requestToBackend has returned, whether the
\* backend answered or not.
C24_OneSpanPerInvocation ==
    \A r \in Requests : \A s \in Slots(r) :
        LET c == calls[r][s]
        IN  /\ c.spansStarted = 1
            /\ c.outcome = "roundTrip" => c.spansEnded = 0
            /\ c.outcome \in {"res", "err"} =>
                /\ c.spansEnded = 1
                /\ c.spanTag = IF s = PrimarySlot THEN "primary.response_time"
                                                  ELSE "secondary.response_time"

\* C24 witness: every task of a request is over, the primary invocation ended
\* in a transport error and a secondary's in a response, no span is open.
C24_Witness ==
    \E r \in Requests :
        /\ hpc[r] = "done" /\ DispatchFinished(r) /\ TasksFinished(r)
        /\ calls[r][PrimarySlot].outcome = "err"
        /\ \E i \in TaskIds : calls[r][i].outcome = "res"
        /\ \A s \in Slots(r) : calls[r][s].spansStarted = calls[r][s].spansEnded

\* C25: an invocation under way has counted nothing; one that returned has
\* started exactly one Increment task, for <prefix>.success.count when the
\* backend answered and <prefix>.failure.count when the round trip failed,
\* with prefix "primary" for the primary and "secondary" for every secondary.
C25_OneCounterPerInvocation ==
    \A r \in Requests : \A s \in Slots(r) :
        LET c == calls[r][s]
        IN  /\ c.prefix = PrefixOf(s)
            /\ c.counted =
                CASE c.outcome = "roundTrip" -> <<>>
                  [] c.outcome = "res" ->
                        IF s = PrimarySlot THEN <<PrimarySuccess>> ELSE <<SecondarySuccess>>
                  [] c.outcome = "err" ->
                        IF s = PrimarySlot THEN <<PrimaryFailure>> ELSE <<SecondaryFailure>>

\* C25 witness: two secondaries with different ids, one answered and one
\* failed, each counted once under the prefix "secondary".
C25_Witness ==
    \E r \in Requests : \E i, j \in TaskIds :
        /\ secondaries[i] # secondaries[j]
        /\ {i, j} \subseteq Slots(r)
        /\ calls[r][i].counted = <<SecondarySuccess>>
        /\ calls[r][j].counted = <<SecondaryFailure>>

\* C26: when the primary answered, the headers sent with the status are all
\* the headers of its response, every value of a multi-valued one, the status
\* is its status, and the body is what could be streamed; when the stream
\* broke, that is the chunks before the break followed by the error's text,
\* under the same status and headers.
C26_HeadersThenStatusThenBody ==
    \A r \in Requests :
        (primRes[r].kind = "res" /\ hpc[r] \in {"responded", "done"}) =>
            /\ rw[r].sent = primRes[r].header
            /\ rw[r].status = primRes[r].status
            /\ primRes[r].readErrAt < 0 => rw[r].body = primRes[r].body
            /\ primRes[r].readErrAt >= 0 =>
                /\ Len(rw[r].body) = primRes[r].readErrAt + 1
                /\ SubSeq(rw[r].body, 1, primRes[r].readErrAt)
                      = SubSeq(primRes[r].body, 1, primRes[r].readErrAt)
                /\ rw[r].body[Len(rw[r].body)].text = "copy error"

\* C26 witness: the primary's stream broke after its first chunk; the caller
\* has the status, both Set-Cookie values and the chunk, then the error text.
C26_Witness ==
    \E r \in Requests :
        /\ primRes[r].kind = "res" /\ primRes[r].readErrAt = 1
        /\ hpc[r] = "done"
        /\ rw[r].status = StatusCreated
        /\ rw[r].sent["Set-Cookie"] = <<"a=1", "b=2">>
        /\ Len(rw[r].body) = 2

\* C27: every outbound request carries context.Background(), so no invocation
\* ends because the caller went away; an invocation begun after the caller
\* left can still end in a response.
C27_CancellationNotPropagated ==
    \A r \in Requests : \A s \in Slots(r) :
        /\ calls[r][s].req.ctx = BackgroundContext
        /\ calls[r][s].cause # ContextCanceled(calls[r][s].backend).body
        /\ (inreq[r].cancelled /\ calls[r][s].outcome = "roundTrip") =>
              roundTrip(calls[r][s], inreq[r].cancelled) = RoundTripResults(calls[r][s].backend)

\* C27 witness: the caller left before the secondaries were invoked; both
\* were invoked, one answered, one failed, and both were counted.
C27_Witness ==
    \E r \in Requests :
        /\ inreq[r].cancelled
        /\ NumSecondaries = 2
        /\ TaskIds \subseteq Slots(r)
        /\ \A i \in TaskIds : calls[r][i].callerGone /\ Len(calls[r][i].counted) = 1
        /\ \E i \in TaskIds : calls[r][i].outcome = "res"

\* C28 (as stated): of the process-wide objects, only the metrics reporter is
\* written while requests are handled.
C28_OnlyReporterWritten == written \subseteq {Reporter}

\* C29: as long as the primary round trip has not returned, nothing at all
\* has been written to the caller: no status, no header, no body.
C29_NoResponseWhilePrimaryPending ==
    \A r \in Requests :
        hpc[r] \in {"idle", "read", "primaryRT"} => rw[r] = NewResponseWriter

\* C29 witness: the caller of a request whose primary has not returned is
\* gone, and still nothing was written.
C29_Witness ==
    \E r \in Requests :
        /\ hpc[r] = "primaryRT"
        /\ inreq[r].cancelled
        /\ rw[r] = NewResponseWriter

\* C30: once the dispatcher of a request exists or a secondary invocation of
\* it has begun, the primary invocation has returned and the caller's response,
\* the primary's or the 503, is written in full.
C30_DispatcherAfterResponse ==
    \A r \in Requests :
        (dnext[r] > 0 \/ Slots(r) \ {PrimarySlot} # {}) =>
            /\ PrimarySlot \in Slots(r)
            /\ calls[r][PrimarySlot].outcome \in {"res", "err"}
            /\ rw[r] = writeCallerResponse(NewResponseWriter, primRes[r])

\* C30 witness: a secondary round trip is under way for a request whose
\* primary failed and whose caller has the 503.
C30_Witness ==
    \E r \in Requests : \E i \in TaskIds :
        /\ {PrimarySlot, i} \subseteq Slots(r)
        /\ calls[r][PrimarySlot].outcome = "err"
        /\ calls[r][i].outcome = "roundTrip"
        /\ rw[r].status = StatusServiceUnavailable

----------------------------------------------------------------------------
(* Request Sanitizer: User-Agent *)

FirstConnectionNamed ==
    IF "Connection" \in DOMAIN arrived /\ Len(arrived["Connection"]) > 0
    THEN NamedIn(arrived["Connection"][1])
    ELSE {}

----------------------------------------------------------------------------
(* Configuration Validator: two runs *)

\* C37 (as stated): a second run of validate on a config equal to the one
\* NewDirector was given, with the same StatsD and log file outcomes, returns
\* the error the first run returned, whatever order its range over the
\* backends takes.
C37_ValidateDeterministic ==
    Validated =>
        \A statsdFailed, opened \in BOOLEAN :
            \A ord1, ord2 \in RangeOrders(before.config.Backends.kv) :
                LET first == validate(before.config, before.logger, ord1, statsdFailed, opened)
                    second == validate(before.config, before.logger, ord2, statsdFailed, opened)
                IN  (first.err = verr /\ first.config = config) => second.err = verr

----------------------------------------------------------------------------
(* Metrics Reporter: the order of the counts *)

\* C36 (as stated): in every state the reporter has counted at most as many
\* primary outcomes as requests.
C36_PrimaryCountedAfterRequest ==
    metrics[PrimarySuccess] + metrics[PrimaryFailure] <= metrics[RequestCount]

----------------------------------------------------------------------------
(* Request Sanitizer: whose URL a clone writes *)

\* The URL of the inbound request as it arrived: nothing but newRequest
\* writes it, so it is the URL the first call found.
OriginalURL == IF built = <<>> THEN inbound.req.URL ELSE built[1].found

\* The URL of a clone for target, computed from the original URL only.
URLFor(target) ==
    [Scheme |-> target.Scheme, Host |-> target.Host,
     Path |-> singleJoiningSlash(target.Path, OriginalURL.Path),
     RawQuery |-> IF target.RawQuery = EmptyString \/ OriginalURL.RawQuery = EmptyString
                  THEN target.RawQuery \o OriginalURL.RawQuery
                  ELSE target.RawQuery \o <<"&">> \o OriginalURL.RawQuery]

\* C38: the URL of every clone is computed from the original inbound URL and
\* the address of its backend, however many clones were built before it;
\* building a clone changes neither the URL of the inbound request nor the
\* URL of a clone built earlier.
C38_URLFromOriginalOnly ==
    /\ inbound.req.URL = OriginalURL
    /\ \A i \in DOMAIN clones : clones[i].URL = URLFor(built[i].target)

----------------------------------------------------------------------------
(* Logger: infoLog and errorLog *)

\* The calls of infoLog and errorLog that run at the same time: the handler
\* and requestToBackend start them as tasks of their own.
MaxLogCalls == 3
LogCallIds == 1..MaxLogCalls

\* log.New(os.Stdout, "", ...): the logger starts without a prefix.
NoPrefix == ""
NotLogging == [fn |-> "", at |-> "idle"]

\* The prefix a function gives the logger before it prints.
prefixOf(fn) == IF fn = "infoLog" THEN "INFO:" ELSE "ERROR:"

\* infoLog prints at level INFO only; errorLog prints at every level.
prints(fn, level) == fn = "errorLog" \/ level = INFO

\* currentLogLevel is what the configuration asked for.
InitLogger ==
    /\ currentLogLevel \in {INFO, ERROR}
    /\ logPrefix = NoPrefix
    /\ logCalls = [c \in LogCallIds |-> NotLogging]
    /\ logLines = <<>>
    /\ DispatchUnused /\ ValidatorUnused /\ SanitizerUnused /\ JoinUnused
    /\ BroadcastUnused /\ BodyUnused

\* A task calls infoLog or errorLog.
LogCall(c, fn) ==
    /\ logCalls[c].at = "idle"
    /\ \A d \in LogCallIds : d < c => logCalls[d].at # "idle"
    /\ logCalls' = [logCalls EXCEPT ![c] = [fn |-> fn, at |-> "called"]]
    /\ UNCHANGED <<currentLogLevel, logPrefix, logLines>>
    /\ UNCHANGED <<dispatchVars, validatorVars, sanitizerVars, joinVars, broadcastVars, bodyVars>>

\* infoLog below level INFO returns at once.
LogSkipped(c) ==
    /\ logCalls[c].at = "called"
    /\ ~prints(logCalls[c].fn, currentLogLevel)
    /\ logCalls' = [logCalls EXCEPT ![c].at = "returned"]
    /\ UNCHANGED <<currentLogLevel, logPrefix, logLines>>
    /\ UNCHANGED <<dispatchVars, validatorVars, sanitizerVars, joinVars, broadcastVars, bodyVars>>

\* logger.SetPrefix: the logger's mutex is held for this one assignment.
SetPrefix(c) ==
    /\ logCalls[c].at = "called"
    /\ prints(logCalls[c].fn, currentLogLevel)
    /\ logPrefix' = prefixOf(logCalls[c].fn)
    /\ logCalls' = [logCalls EXCEPT ![c].at = "SetPrefix"]
    /\ UNCHANGED <<currentLogLevel, logLines>>
    /\ UNCHANGED <<dispatchVars, validatorVars, sanitizerVars, joinVars, broadcastVars, bodyVars>>

\* logger.Println: the line carries the prefix the logger has when the
\* mutex is taken for the output.
Println(c) ==
    /\ logCalls[c].at = "SetPrefix"
    /\ logLines' = Append(logLines, [prefix |-> logPrefix, fn |-> logCalls[c].fn])
    /\ logCalls' = [logCalls EXCEPT ![c].at = "returned"]
    /\ UNCHANGED <<currentLogLevel, logPrefix>>
    /\ UNCHANGED <<dispatchVars, validatorVars, sanitizerVars, joinVars, broadcastVars, bodyVars>>

NextLogger ==
    \/ \E c \in LogCallIds, fn \in {"infoLog", "errorLog"} : LogCall(c, fn)
    \/ \E c \in LogCallIds : LogSkipped(c)
    \/ \E c \in LogCallIds : SetPrefix(c)
    \/ \E c \in LogCallIds : Println(c)

SpecLogger == InitLogger /\ [][NextLogger]_vars

\* C39: whatever the interleaving of the calls, a line errorLog printed
\* carries the prefix ERROR: and a line infoLog printed the prefix INFO:.
C39_LinesCarryOwnPrefix ==
    \A i \in DOMAIN logLines : logLines[i].prefix = prefixOf(logLines[i].fn)

----------------------------------------------------------------------------
(* Response bodies: copyResponse and logResponse *)

\* A status line the transport accepts and the server does not: three digits
\* that make a number below 100.
StatusMalformed == 42
validCode(code) == code >= 100 /\ code <= 999

\* The invocations of one request: the primary's and two secondaries'.
BodySlots == {PrimarySlot, 1, 2}
BodyBackend(s) == IF s = PrimarySlot THEN PrimaryTag ELSE <<"B1", "B3">>[s]

\* What a backend may answer: no answer, an answer whose body can be read to
\* its end or breaks on the way, with a status the server accepts or not.
BackendAnswers(b) ==
    RoundTripResults(b) \cup
    {[r EXCEPT !.status = StatusMalformed] : r \in RoundTripResults(b) \ {TransportError(b)}}

InitBodies ==
    /\ checksCode \in BOOLEAN
    /\ got = [s \in BodySlots |-> NoResult]
    /\ at = [s \in BodySlots |-> "idle"]
    /\ closes = [s \in BodySlots |-> 0]
    /\ DispatchUnused /\ ValidatorUnused /\ SanitizerUnused /\ JoinUnused
    /\ LoggerUnused /\ BroadcastUnused

\* requestToBackend returns: the handler holds the primary's result; a
\* secondary's task runs only once the handler started the dispatcher, which
\* it does after it answered the caller.
RoundTripReturns(s) ==
    /\ at[s] = "idle"
    /\ s # PrimarySlot => at[PrimarySlot] = "returned"
    /\ \E res \in BackendAnswers(BodyBackend(s)) :
        /\ got' = [got EXCEPT ![s] = res]
        /\ at' = [at EXCEPT ![s] = IF res.kind = "res" THEN "obtained" ELSE "returned"]
    /\ UNCHANGED <<checksCode, closes>>
    /\ UNCHANGED <<dispatchVars, validatorVars, sanitizerVars, joinVars, loggerVars, broadcastVars>>

\* copyResponse up to its defer: copyHeader, then rw.WriteHeader(res.StatusCode),
\* which panics on a code outside 100..999 where the runtime checks the code;
\* the close of the body is deferred after that.
CopyResponseBegins ==
    /\ at[PrimarySlot] = "obtained"
    /\ at' = [at EXCEPT ![PrimarySlot] =
                IF checksCode /\ ~validCode(got[PrimarySlot].status)
                THEN "panicked" ELSE "deferred"]
    /\ UNCHANGED <<checksCode, got, closes>>
    /\ UNCHANGED <<dispatchVars, validatorVars, sanitizerVars, joinVars, loggerVars, broadcastVars>>

\* logResponse up to its copy: the close of the body is deferred first.
LogResponseBegins(s) ==
    /\ s # PrimarySlot
    /\ at[s] = "obtained"
    /\ at' = [at EXCEPT ![s] = "deferred"]
    /\ UNCHANGED <<checksCode, got, closes>>
    /\ UNCHANGED <<dispatchVars, validatorVars, sanitizerVars, joinVars, loggerVars, broadcastVars>>

\* The body is copied to its end or to its first error (copyResponse prints
\* the error, logResponse ignores it); the function returns and the deferred
\* res.Body.Close() runs.
BodyCopied(s) ==
    /\ at[s] = "deferred"
    /\ at' = [at EXCEPT ![s] = "returned"]
    /\ closes' = [closes EXCEPT ![s] = @ + 1]
    /\ UNCHANGED <<checksCode, got>>
    /\ UNCHANGED <<dispatchVars, validatorVars, sanitizerVars, joinVars, loggerVars, broadcastVars>>

NextBodies ==
    \/ \E s \in BodySlots : RoundTripReturns(s)
    \/ CopyResponseBegins
    \/ \E s \in BodySlots : LogResponseBegins(s)
    \/ \E s \in BodySlots : BodyCopied(s)

SpecBodies == InitBodies /\ [][NextBodies]_vars

\* The request has no task left that can take a step.
BodiesSettled ==
    \A s \in BodySlots :
        \/ at[s] \in {"returned", "panicked"}
        \/ s # PrimarySlot /\ at[PrimarySlot] = "panicked"

\* C34: the body of a response is closed at most once, and only when the
\* function that copies it has returned; once no task of the request has a
\* step left, the body of every response obtained is closed.
C34_BodiesClosedOnce ==
    /\ \A s \in BodySlots : closes[s] = IF at[s] = "returned" /\ got[s].kind = "res" THEN 1 ELSE 0
    /\ BodiesSettled => \A s \in BodySlots : got[s].kind = "res" => closes[s] = 1

----------------------------------------------------------------------------
(* Simple broadcaster: the handler of src/main.go and roundTrip *)

ENDPOINTS == <<"localhost:9091", "localhost:9092">>
EndpointIds == DOMAIN ENDPOINTS

\* A faulty variant: the channels hold one value.
ChanCap_one == Len(ENDPOINTS) - 1

\* make(chan ..., len(ENDPOINTS)): the capacity of res_chan and of err_chan.
ChanCap == Len(ENDPOINTS)

\* What transport.RoundTrip returns for endpoint k: a response whose body
\* can be read to its end or not, or an error.
Outcomes(k) ==
    {[kind |-> "res", from |-> k, readable |-> ok] : ok \in BOOLEAN} \cup
    {[kind |-> "err", from |-> k, readable |-> FALSE]}
NoOutcome == [kind |-> "none", from |-> 0, readable |-> FALSE]
NotStarted == [at |-> "unborn", result |-> NoOutcome]

InitBroadcast ==
    /\ bh = [pc |-> "range", i |-> 1, responses |-> <<>>, errors |-> <<>>,
             consumed |-> <<>>]
    /\ btasks = [k \in EndpointIds |-> NotStarted]
    /\ res_chan = <<>>
    /\ err_chan = <<>>
    /\ brw = <<>>
    /\ DispatchUnused /\ ValidatorUnused /\ SanitizerUnused /\ JoinUnused
    /\ LoggerUnused /\ BodyUnused

\* One turn of the range over ENDPOINTS: go roundTrip(request, ...).
GoRoundTrip ==
    /\ bh.pc = "range"
    /\ btasks' = [btasks EXCEPT ![bh.i].at = "RoundTrip"]
    /\ bh' = IF bh.i = Len(ENDPOINTS) THEN [bh EXCEPT !.pc = "select", !.i = 1]
             ELSE [bh EXCEPT !.i = @ + 1]
    /\ UNCHANGED <<res_chan, err_chan, brw>>
    /\ UNCHANGED <<dispatchVars, validatorVars, sanitizerVars, joinVars, loggerVars, bodyVars>>

\* transport.RoundTrip returns in task k.
RoundTripDone(k) ==
    /\ btasks[k].at = "RoundTrip"
    /\ \E o \in Outcomes(k) :
        btasks' = [btasks EXCEPT ![k] = [at |-> "send", result |-> o]]
    /\ UNCHANGED <<bh, res_chan, err_chan, brw>>
    /\ UNCHANGED <<dispatchVars, validatorVars, sanitizerVars, joinVars, loggerVars, bodyVars>>

\* res_chan <- res or err_chan <- err in task k: the send goes through when
\* the channel has room, and the task returns.
ChanSend(k) ==
    /\ btasks[k].at = "send"
    /\ IF btasks[k].result.kind = "res"
       THEN /\ Len(res_chan) < ChanCap
            /\ res_chan' = Append(res_chan, btasks[k].result)
            /\ UNCHANGED err_chan
       ELSE /\ Len(err_chan) < ChanCap
            /\ err_chan' = Append(err_chan, btasks[k].result)
            /\ UNCHANGED res_chan
    /\ btasks' = [btasks EXCEPT ![k].at = "returned"]
    /\ UNCHANGED <<bh, brw>>
    /\ UNCHANGED <<dispatchVars, validatorVars, sanitizerVars, joinVars, loggerVars, bodyVars>>

\* One turn of the handler's loop, case res := <-res_chan: the body is read,
\* and kept when reading succeeded.
SelectResponse ==
    /\ bh.pc = "select"
    /\ res_chan # <<>>
    /\ LET res == Head(res_chan)
       IN  bh' = [bh EXCEPT
                    !.responses = IF res.readable THEN Append(@, res.from) ELSE @,
                    !.consumed = Append(@, res.from),
                    !.i = @ + 1,
                    !.pc = IF bh.i = Len(ENDPOINTS) THEN "reply" ELSE @]
    /\ res_chan' = Tail(res_chan)
    /\ UNCHANGED <<btasks, err_chan, brw>>
    /\ UNCHANGED <<dispatchVars, validatorVars, sanitizerVars, joinVars, loggerVars, bodyVars>>

\* One turn of the handler's loop, case err := <-err_chan.
SelectError ==
    /\ bh.pc = "select"
    /\ err_chan # <<>>
    /\ bh' = [bh EXCEPT
                !.errors = Append(@, Head(err_chan).from),
                !.consumed = Append(@, Head(err_chan).from),
                !.i = @ + 1,
                !.pc = IF bh.i = Len(ENDPOINTS) THEN "reply" ELSE @]
    /\ err_chan' = Tail(err_chan)
    /\ UNCHANGED <<btasks, res_chan, brw>>
    /\ UNCHANGED <<dispatchVars, validatorVars, sanitizerVars, joinVars, loggerVars, bodyVars>>

\* fmt.Fprintln(rw, response) after the loop.
Reply ==
    /\ bh.pc = "reply"
    /\ brw' = Append(brw, [responses |-> bh.responses, errors |-> bh.errors])
    /\ bh' = [bh EXCEPT !.pc = "returned"]
    /\ UNCHANGED <<btasks, res_chan, err_chan>>
    /\ UNCHANGED <<dispatchVars, validatorVars, sanitizerVars, joinVars, loggerVars, bodyVars>>

NextBroadcast ==
    \/ GoRoundTrip
    \/ \E k \in EndpointIds : RoundTripDone(k)
    \/ \E k \in EndpointIds : ChanSend(k)
    \/ SelectResponse
    \/ SelectError
    \/ Reply

SpecBroadcast == InitBroadcast /\ [][NextBroadcast]_vars

\* C32: when the handler replies it has consumed one outcome of every
\* endpoint, len(ENDPOINTS) in all, and a task that wants to send always
\* finds room in its channel.
C32_ReplyAfterAllOutcomes ==
    /\ bh.pc \in {"reply", "returned"} =>
        /\ Len(bh.consumed) = Len(ENDPOINTS)
        /\ \A k \in EndpointIds :
            Cardinality({j \in DOMAIN bh.consumed : bh.consumed[j] = k}) = 1
    /\ brw # <<>> => bh.pc = "returned"
    /\ \A k \in EndpointIds :
        btasks[k].at = "send" =>
            IF btasks[k].result.kind = "res"
            THEN Len(res_chan) < ChanCap ELSE Len(err_chan) < ChanCap

\* The handler replied with the response of one endpoint and the error of
\* the other, and both tasks have returned.
C32_Witness ==
    /\ brw # <<>>
    /\ Len(bh.responses) = 1 /\ Len(bh.errors) = 1
    /\ \A k \in EndpointIds : btasks[k].at = "returned"

----------------------------------------------------------------------------
(* Timeout-racing broadcaster: broadcastHandler, requestToPrimary and
   requestToSecondary *)

\* config.Backends: the primary and two secondaries.
RaceBackends == {PrimaryTag, "B1", "B3"}

\* What transport.RoundTrip returns: a response with a status the server
\* accepts or not, or an error.
RaceOutcomes(id) ==
    {[kind |-> "res", from |-> id, status |-> st] : st \in {StatusCreated, StatusMalformed}}
    \cup {[kind |-> "err", from |-> id, status |-> 0]}
NoRaceOutcome == [kind |-> "none", from |-> "", status |-> 0]

\* res_chan and err_chan are made without a buffer: a send completes only
\* in the handler's receive, so the channels never hold a value.
Unbuffered == <<>>

InitRace ==
    /\ \E checks \in BOOLEAN :
        bh = [pc |-> "range", started |-> {}, checksCode |-> checks]
    /\ btasks = [id \in RaceBackends |->
                    [at |-> "unborn", result |-> NoRaceOutcome, closes |-> 0]]
    /\ res_chan = Unbuffered
    /\ err_chan = Unbuffered
    /\ brw = <<>>
    /\ DispatchUnused /\ ValidatorUnused /\ SanitizerUnused /\ JoinUnused
    /\ LoggerUnused /\ BodyUnused

\* One turn of the range over config.Backends, whose order is not fixed:
\* go requestToPrimary(...) or go requestToSecondary(...).
GoRequest(id) ==
    /\ bh.pc = "range"
    /\ id \notin bh.started
    /\ btasks' = [btasks EXCEPT ![id].at = "RoundTrip"]
    /\ bh' = [bh EXCEPT !.started = @ \cup {id},
                        !.pc = IF bh.started \cup {id} = RaceBackends THEN "select" ELSE @]
    /\ UNCHANGED <<res_chan, err_chan, brw>>
    /\ UNCHANGED <<dispatchVars, validatorVars, sanitizerVars, joinVars, loggerVars, bodyVars>>

\* transport.RoundTrip returns in requestToPrimary: the task goes on to send
\* its result (after errorLog when it is an error).
RequestToPrimaryRoundTrip ==
    /\ btasks[PrimaryTag].at = "RoundTrip"
    /\ \E o \in RaceOutcomes(PrimaryTag) :
        btasks' = [btasks EXCEPT ![PrimaryTag].at = "send", ![PrimaryTag].result = o]
    /\ UNCHANGED <<bh, res_chan, err_chan, brw>>
    /\ UNCHANGED <<dispatchVars, validatorVars, sanitizerVars, joinVars, loggerVars, bodyVars>>

\* transport.RoundTrip returns in requestToSecondary: an error is logged and
\* the task returns; the close of a response's body is deferred.
RequestToSecondaryRoundTrip(id) ==
    /\ id # PrimaryTag
    /\ btasks[id].at = "RoundTrip"
    /\ \E o \in RaceOutcomes(id) :
        btasks' = [btasks EXCEPT ![id].result = o,
                                 ![id].at = IF o.kind = "res" THEN "deferred" ELSE "returned"]
    /\ UNCHANGED <<bh, res_chan, err_chan, brw>>
    /\ UNCHANGED <<dispatchVars, validatorVars, sanitizerVars, joinVars, loggerVars, bodyVars>>

\* requestToSecondary copies the body, logs it and returns: the deferred
\* res.Body.Close() runs.
RequestToSecondaryReturns(id) ==
    /\ id # PrimaryTag
    /\ btasks[id].at = "deferred"
    /\ btasks' = [btasks EXCEPT ![id].at = "returned", ![id].closes = @ + 1]
    /\ UNCHANGED <<bh, res_chan, err_chan, brw>>
    /\ UNCHANGED <<dispatchVars, validatorVars, sanitizerVars, joinVars, loggerVars, bodyVars>>

\* case res := <-res_chan: the primary's send completes and its task
\* returns; the handler runs copyResponse, whose WriteHeader panics on a
\* malformed status where the runtime checks it, before the close of the
\* body is deferred.
RaceSelectResponse ==
    /\ bh.pc = "select"
    /\ btasks[PrimaryTag].at = "send"
    /\ btasks[PrimaryTag].result.kind = "res"
    /\ LET res == btasks[PrimaryTag].result
           panics == bh.checksCode /\ ~validCode(res.status)
       IN  /\ brw' = Append(brw, [outcome |-> "response", sent |-> ~panics])
           /\ bh' = [bh EXCEPT !.pc = IF panics THEN "panicked" ELSE "returned"]
           /\ btasks' = [btasks EXCEPT ![PrimaryTag].at = "returned",
                                       ![PrimaryTag].closes = IF panics THEN @ ELSE @ + 1]
    /\ UNCHANGED <<res_chan, err_chan>>
    /\ UNCHANGED <<dispatchVars, validatorVars, sanitizerVars, joinVars, loggerVars, bodyVars>>

\* case err := <-err_chan: the handler prints the primary's error.
RaceSelectError ==
    /\ bh.pc = "select"
    /\ btasks[PrimaryTag].at = "send"
    /\ btasks[PrimaryTag].result.kind = "err"
    /\ brw' = Append(brw, [outcome |-> "error", sent |-> TRUE])
    /\ bh' = [bh EXCEPT !.pc = "returned"]
    /\ btasks' = [btasks EXCEPT ![PrimaryTag].at = "returned"]
    /\ UNCHANGED <<res_chan, err_chan>>
    /\ UNCHANGED <<dispatchVars, validatorVars, sanitizerVars, joinVars, loggerVars, bodyVars>>

\* A faulty variant: the handler prints "Timeout" and goes on waiting.
RaceSelectTimeout_keepsWaiting ==
    /\ bh.pc = "select"
    /\ brw = <<>>
    /\ brw' = Append(brw, [outcome |-> "Timeout", sent |-> TRUE])
    /\ UNCHANGED <<bh, btasks, res_chan, err_chan>>
    /\ UNCHANGED <<dispatchVars, validatorVars, sanitizerVars, joinVars, loggerVars, bodyVars>>

\* case <-time.After(response_timeout): the handler prints "Timeout" and
\* returns; nothing receives from the channels after that.
RaceSelectTimeout ==
    /\ bh.pc = "select"
    /\ brw' = Append(brw, [outcome |-> "Timeout", sent |-> TRUE])
    /\ bh' = [bh EXCEPT !.pc = "returned"]
    /\ UNCHANGED <<btasks, res_chan, err_chan>>
    /\ UNCHANGED <<dispatchVars, validatorVars, sanitizerVars, joinVars, loggerVars, bodyVars>>

NextRace ==
    \/ \E id \in RaceBackends : GoRequest(id)
    \/ RequestToPrimaryRoundTrip
    \/ \E id \in RaceBackends : RequestToSecondaryRoundTrip(id)
    \/ \E id \in RaceBackends : RequestToSecondaryReturns(id)
    \/ RaceSelectResponse
    \/ RaceSelectError
    \/ RaceSelectTimeout

SpecRace == InitRace /\ [][NextRace]_vars

\* Every backend answers in the end, the timer fires, and a task or a
\* handler that can take a step takes it.
RaceFairness ==
    /\ \A id \in RaceBackends : WF_vars(GoRequest(id))
    /\ WF_vars(RequestToPrimaryRoundTrip)
    /\ \A id \in RaceBackends :
        WF_vars(RequestToSecondaryRoundTrip(id)) /\ WF_vars(RequestToSecondaryReturns(id))
    /\ WF_vars(RaceSelectResponse) /\ WF_vars(RaceSelectError) /\ WF_vars(RaceSelectTimeout)

SpecRaceFair == SpecRace /\ RaceFairness

C35_TasksTerminate ==
    <>(\A id \in RaceBackends :
        /\ btasks[id].at = "returned"
        /\ btasks[id].result.kind = "res" => btasks[id].closes = 1)

=============================================================================
